---- MODULE Spec2Model ----
(***************************************************************************)
(* Document text extraction and JSON sanitization of ai-content-creator.   *)
(*                                                                         *)
(* A text is a sequence of Unicode code points (naturals).  The model has  *)
(* eight specifications over one set of variables:                         *)
(*   SpecSan    - DocxParser._make_json_compatible applied to bounded      *)
(*                texts, followed by the JSON checks of extract_text;      *)
(*   Spec       - DocxParser.extract_text and parse_document on bounded    *)
(*                document models;                                         *)
(*   SpecApi    - the upload endpoint of routers/documents.py;             *)
(*   SpecRaw    - the plain-text and markdown services on byte buffers;    *)
(*   SpecText   - InputProcessingService.sanitize_text next to             *)
(*                DocxParser._make_json_compatible;                        *)
(*   SpecDocx   - DocxService.extract_text;                                *)
(*   SpecIntent - the customer-intent endpoint, step by step;              *)
(*   SpecCalls  - two interleaved calls of DocxParser.extract_text.        *)
(***************************************************************************)
EXTENDS Integers, Sequences, FiniteSets, TLC

(***************************************************************************)
(* Bounds of the model.                                                    *)
(***************************************************************************)
MaxLen == 3
MaxBlocks == 3
MaxRows == 2
MaxLevel == 2
MaxParsedBlocks == 1
MaxUploadBlocks == 2
MaxBytes == 4

(***************************************************************************)
(* Code points.                                                            *)
(***************************************************************************)
TAB == 9
LF == 10
CR == 13
SP == 32
DQ == 34
APOS == 39
SLASH == 47
COLON == 58
BS == 92
LBRACE == 123
PIPE == 124
RBRACE == 125
DEL == 127
HYPHEN == 45
DOT == 46
EN_DASH == 8211
EM_DASH == 8212
BULLET == 8226
ELLIPSIS == 8230
\* The sample letters of paragraph and cell texts: Letter(1) is "a".
Letter(k) == 96 + k

(***************************************************************************)
(* Sequence helpers: Python's str.replace, str.join, str.strip.            *)
(***************************************************************************)
Range(s) == {s[i] : i \in DOMAIN s}

DropFirst(s, n) == SubSeq(s, n + 1, Len(s))

\* Concatenation of the sequences ss[lo], ..., ss[hi], by halves (the depth
\* of the recursion is logarithmic in the number of pieces).
RECURSIVE ConcatRange(_, _, _)
ConcatRange(ss, lo, hi) ==
    IF lo > hi THEN <<>>
    ELSE IF lo = hi THEN ss[lo]
    ELSE LET mid == (lo + hi) \div 2
         IN  ConcatRange(ss, lo, mid) \o ConcatRange(ss, mid + 1, hi)

Concat(ss) == ConcatRange(ss, 1, Len(ss))

MatchAt(s, i, old) ==
    i >= 1 /\ i + Len(old) - 1 <= Len(s) /\ SubSeq(s, i, i + Len(old) - 1) = old

\* str.replace(old, new): every leftmost, non-overlapping occurrence.  None
\* of the patterns the program replaces can overlap itself, so the
\* occurrences are the positions where the pattern matches: the character at
\* i begins an occurrence (new is written), lies inside one (nothing is
\* written) or is copied.
Replace(s, old, new) ==
    Concat([i \in 1..Len(s) |->
        IF MatchAt(s, i, old) THEN new
        ELSE IF \E j \in (i - Len(old) + 1)..(i - 1) : MatchAt(s, j, old) THEN <<>>
        ELSE <<s[i]>>])

\* sep.join(parts)
Join(sep, parts) ==
    Concat([k \in 1..Len(parts) |-> IF k = 1 THEN parts[k] ELSE sep \o parts[k]])

\* Characters str.strip() removes (those of the model's alphabet and their
\* neighbours: the ASCII whitespace and the separators U+001C..U+001F).
Whitespace == {TAB, LF, 11, 12, CR, 28, 29, 30, 31, SP, 133, 160}

RECURSIVE LStrip(_)
LStrip(s) == IF s # <<>> /\ Head(s) \in Whitespace THEN LStrip(Tail(s)) ELSE s

RECURSIVE RStrip(_)
RStrip(s) ==
    IF s # <<>> /\ s[Len(s)] \in Whitespace THEN RStrip(SubSeq(s, 1, Len(s) - 1)) ELSE s

Strip(s) == RStrip(LStrip(s))

(***************************************************************************)
(* DocxParser._make_json_compatible, stage by stage.                       *)
(***************************************************************************)
\* A variant that replaces the carriage returns first: a CRLF pair becomes
\* two newlines.
NormalizeLineBreaks_cr_first(text) == Replace(Replace(text, <<CR>>, <<LF>>), <<CR, LF>>, <<LF>>)

\* Step 1: text.replace('\r\n', '\n').replace('\r', '\n')
NormalizeLineBreaks(text) == Replace(Replace(text, <<CR, LF>>, <<LF>>), <<CR>>, <<LF>>)

\* Step 2: re.sub(r'[\x00-\x08\x0B\x0C\x0E-\x1F\x7F]', '', text)
ControlClass == (0..8) \cup {11, 12} \cup (14..31) \cup {DEL}

IsKept(c) == c \notin ControlClass

RemoveControlChars(text) == SelectSeq(text, IsKept)

\* Step 3: re.sub(r' {2,}', ' ', text)
\* (of a run of spaces the last one stays)
NormalizeWhitespace(text) ==
    Concat([i \in 1..Len(text) |->
        IF text[i] = SP /\ i < Len(text) /\ text[i + 1] = SP THEN <<>> ELSE <<text[i]>>])

\* Step 4, as the source file has it: both arguments of the two quote
\* replacements are the ASCII double quote (the replacements change nothing),
\* and the apostrophe line is ONE replace whose first argument is the
\* triple-quoted string  , "'").replace(  and whose second is "'".
QuotePattern == <<44, SP, DQ, APOS, DQ, 41, DOT, 114, 101, 112, 108, 97, 99, 101, 40>>

NormalizeQuotes(text) ==
    Replace(Replace(Replace(text, <<DQ>>, <<DQ>>), <<DQ>>, <<DQ>>), QuotePattern, <<APOS>>)

\* Step 5: em-dash, en-dash, ellipsis
NormalizeSpecialChars(text) ==
    Replace(Replace(Replace(text, <<EM_DASH>>, <<HYPHEN, HYPHEN>>),
                    <<EN_DASH>>, <<HYPHEN>>),
            <<ELLIPSIS>>, <<DOT, DOT, DOT>>)

\* Step 6: text.replace('\\', '\\\\')
EscapeBackslashes(text) == Replace(text, <<BS>>, <<BS, BS>>)

\* Step 7: text.replace('"', '\\"')
EscapeQuotes(text) == Replace(text, <<DQ>>, <<BS, DQ>>)

\* The text as it stands after steps 1-5.
Stage5(text) ==
    NormalizeSpecialChars(NormalizeQuotes(NormalizeWhitespace(
        RemoveControlChars(NormalizeLineBreaks(text)))))

\* A variant with steps 2 and 3 exchanged (whitespace collapsed before the
\* control characters are removed).
make_json_compatible_collapse_first(text) ==
    IF text = <<>> THEN text
    ELSE EscapeQuotes(EscapeBackslashes(NormalizeSpecialChars(NormalizeQuotes(
            RemoveControlChars(NormalizeWhitespace(NormalizeLineBreaks(text)))))))

\* A variant that escapes the quotes before it doubles the backslashes.
make_json_compatible_quotes_first(text) ==
    IF text = <<>> THEN text ELSE EscapeBackslashes(EscapeQuotes(Stage5(text)))

make_json_compatible(text) ==
    IF text = <<>> THEN text
    ELSE EscapeQuotes(EscapeBackslashes(Stage5(text)))

(***************************************************************************)
(* InputProcessingService.sanitize_text, method by method.                 *)
(***************************************************************************)
NUL == 0

\* text.replace('\r\n', '\n').replace('\r', '\n')
normalize_line_breaks(text) ==
    Replace(Replace(text, <<CR, LF>>, <<LF>>), <<CR>>, <<LF>>)

\* re.sub(r'[\x00-\x08\x0B\x0C\x0E-\x1F\x7F]', '', text)
RemovedByService == (NUL..8) \cup {11, 12} \cup (14..31) \cup {DEL}

IsKeptByService(c) == c \notin RemovedByService

remove_control_chars(text) == SelectSeq(text, IsKeptByService)

\* re.sub(r' {2,}', ' ', text)
normalize_whitespace(text) ==
    Concat([i \in 1..Len(text) |->
        IF text[i] = SP /\ i < Len(text) /\ text[i + 1] = SP THEN <<>> ELSE <<text[i]>>])

\* QUOTE_MAPPINGS as the source file has it.  The first line of the literal
\* maps the ASCII double quote to itself (twice).  The second line is ONE
\* entry: its key is the triple-quoted string  : "'",  (colon, space, double
\* quote, apostrophe, double quote, comma, space) and its value is "'".
QUOTE_MAPPINGS == << <<(<<DQ>>), (<<DQ>>)>>, <<(<<COLON, SP, DQ, APOS, DQ, 44, SP>>), (<<APOS>>)>> >>

\* SPECIAL_CHAR_MAPPINGS
SPECIAL_CHAR_MAPPINGS ==
    << <<(<<EM_DASH>>), (<<HYPHEN, HYPHEN>>)>>,
       <<(<<EN_DASH>>), (<<HYPHEN>>)>>,
       <<(<<ELLIPSIS>>), (<<DOT, DOT, DOT>>)>> >>

\* for unicode_char, ascii_char in mappings.items():
\*     text = text.replace(unicode_char, ascii_char)
RECURSIVE ReplaceEach(_, _, _)
ReplaceEach(text, mappings, k) ==
    IF k > Len(mappings) THEN text
    ELSE ReplaceEach(Replace(text, mappings[k][1], mappings[k][2]), mappings, k + 1)

normalize_quotes(text) == ReplaceEach(text, QUOTE_MAPPINGS, 1)

normalize_special_chars(text) == ReplaceEach(text, SPECIAL_CHAR_MAPPINGS, 1)

\* text.replace('\\', '\\\\')
escape_backslashes(text) == Replace(text, <<BS>>, <<BS, BS>>)

\* A variant that collapses the runs of spaces before it removes the control
\* characters.
sanitize_text_collapse_first(content) ==
    IF content = <<>> THEN <<>>
    ELSE escape_backslashes(normalize_special_chars(normalize_quotes(
             remove_control_chars(normalize_whitespace(
                 normalize_line_breaks(content))))))

sanitize_text(content) ==
    IF content = <<>> THEN <<>>
    ELSE escape_backslashes(normalize_special_chars(normalize_quotes(
             normalize_whitespace(remove_control_chars(
                 normalize_line_breaks(content))))))

(***************************************************************************)
(* json.dumps / json.loads on the shapes extract_text builds: a string, and*)
(* an object with one member whose value is a string.  Code points are in  *)
(* the Basic Multilingual Plane.                                           *)
(***************************************************************************)
HexDigit(n) == IF n < 10 THEN 48 + n ELSE 87 + n

\* '\\u{0:04x}'.format(c)
EscapeU(c) ==
    <<BS, 117, HexDigit((c \div 4096) % 16), HexDigit((c \div 256) % 16),
      HexDigit((c \div 16) % 16), HexDigit(c % 16)>>

\* json.encoder ESCAPE_DCT / ESCAPE_ASCII: one character of a string
EscapeChar(c) ==
    IF c = DQ THEN <<BS, DQ>>
    ELSE IF c = BS THEN <<BS, BS>>
    ELSE IF c = LF THEN <<BS, 110>>
    ELSE IF c = CR THEN <<BS, 114>>
    ELSE IF c = TAB THEN <<BS, 116>>
    ELSE IF c = 8 THEN <<BS, 98>>
    ELSE IF c = 12 THEN <<BS, 102>>
    ELSE IF c < 32 \/ c > 126 THEN EscapeU(c)
    ELSE <<c>>

EscapeAll(s) == Concat([i \in 1..Len(s) |-> EscapeChar(s[i])])

\* json.dumps(s) of a str: a JSON string literal
DumpsStr(s) == <<DQ>> \o EscapeAll(s) \o <<DQ>>

\* json.dumps({key: value})
DumpsObj(key, value) ==
    <<LBRACE>> \o DumpsStr(key) \o <<COLON, SP>> \o DumpsStr(value) \o <<RBRACE>>

JsonFail == [ok |-> FALSE, key |-> <<>>, val |-> <<>>, rest |-> <<>>]

HexValue(c) ==
    IF c \in 48..57 THEN c - 48
    ELSE IF c \in 97..102 THEN c - 87
    ELSE IF c \in 65..70 THEN c - 55
    ELSE -1

\* json.decoder BACKSLASH: the one-character escapes
SimpleEscape(e) ==
    IF e = DQ THEN DQ
    ELSE IF e = BS THEN BS
    ELSE IF e = SLASH THEN SLASH
    ELSE IF e = 98 THEN 8
    ELSE IF e = 102 THEN 12
    ELSE IF e = 110 THEN LF
    ELSE IF e = 114 THEN CR
    ELSE IF e = 116 THEN TAB
    ELSE -1

\* json.decoder.scanstring (strict), one character at a time.  The scanner
\* is reading plain characters ("chars"), the character after a backslash
\* ("escape"), the four digits after \u ("hex"), has passed the closing
\* quote ("done": the other characters are the rest) or has failed.
ScanStart == [mode |-> "chars", val |-> <<>>, hex |-> <<>>, rest |-> <<>>]

ScanStep(st, c) ==
    IF st.mode = "fail" THEN st
    ELSE IF st.mode = "done" THEN [st EXCEPT !.rest = Append(@, c)]
    ELSE IF st.mode = "chars"
         THEN IF c = DQ THEN [st EXCEPT !.mode = "done"]
              ELSE IF c = BS THEN [st EXCEPT !.mode = "escape"]
              ELSE IF c < 32 THEN [st EXCEPT !.mode = "fail"]
              ELSE [st EXCEPT !.val = Append(@, c)]
    ELSE IF st.mode = "escape"
         THEN IF c = 117 THEN [st EXCEPT !.mode = "hex", !.hex = <<>>]
              ELSE IF SimpleEscape(c) >= 0
                   THEN [st EXCEPT !.mode = "chars", !.val = Append(@, SimpleEscape(c))]
                   ELSE [st EXCEPT !.mode = "fail"]
    ELSE IF HexValue(c) < 0 THEN [st EXCEPT !.mode = "fail"]
         ELSE IF Len(st.hex) < 3 THEN [st EXCEPT !.hex = Append(@, HexValue(c))]
         ELSE [st EXCEPT !.mode = "chars", !.hex = <<>>,
                         !.val = Append(@, st.hex[1] * 4096 + st.hex[2] * 256
                                           + st.hex[3] * 16 + HexValue(c))]

\* The scanner run over s[lo..hi] from state st, by halves.
RECURSIVE ScanRange(_, _, _, _)
ScanRange(s, lo, hi, st) ==
    IF lo > hi THEN st
    ELSE IF lo = hi THEN ScanStep(st, s[lo])
    ELSE LET mid == (lo + hi) \div 2
             left == ScanRange(s, lo, mid, st)
         IN  IF left.mode = "fail" THEN left ELSE ScanRange(s, mid + 1, hi, left)

\* s begins just after the opening quote; the result's rest begins just
\* after the closing quote.
ScanString(s) ==
    LET st == ScanRange(s, 1, Len(s), ScanStart)
    IN  IF st.mode = "done"
        THEN [ok |-> TRUE, key |-> <<>>, val |-> st.val, rest |-> st.rest]
        ELSE JsonFail

JsonWhitespace == {SP, TAB, LF, CR}

RECURSIVE SkipWs(_)
SkipWs(s) == IF s # <<>> /\ Head(s) \in JsonWhitespace THEN SkipWs(Tail(s)) ELSE s

StartsWith(s, c) == s # <<>> /\ Head(s) = c

\* json.loads(s) of an object with one string member
LoadsObj(s) ==
    LET s1 == SkipWs(s) IN
    IF ~StartsWith(s1, LBRACE) THEN JsonFail ELSE
    LET s2 == SkipWs(Tail(s1)) IN
    IF ~StartsWith(s2, DQ) THEN JsonFail ELSE
    LET k == ScanString(Tail(s2)) IN
    IF ~k.ok THEN JsonFail ELSE
    LET s3 == SkipWs(k.rest) IN
    IF ~StartsWith(s3, COLON) THEN JsonFail ELSE
    LET s4 == SkipWs(Tail(s3)) IN
    IF ~StartsWith(s4, DQ) THEN JsonFail ELSE
    LET v == ScanString(Tail(s4)) IN
    IF ~v.ok THEN JsonFail ELSE
    LET s5 == SkipWs(v.rest) IN
    IF ~StartsWith(s5, RBRACE) THEN JsonFail ELSE
    IF SkipWs(Tail(s5)) # <<>> THEN JsonFail
    ELSE [ok |-> TRUE, key |-> k.val, val |-> v.val, rest |-> <<>>]

\* The text placed verbatim, with no further escaping, between two double
\* quotes and read as a JSON string literal.
VerbatimLiteral(text) == ScanString(text \o <<DQ>>)

KeyPrompt == <<112, 114, 111, 109, 112, 116>>
KeyOuter == <<111, 117, 116, 101, 114>>


(***************************************************************************)
(* DocxParser.extract_text, lines 163-177: the JSON self-check.            *)
(***************************************************************************)
\* A variant whose Test 3 puts the text between quotes itself instead of
\* calling json.dumps on it.
SelfCheck_raw_embedding(text) ==
    LET nested_json == DumpsObj(KeyOuter, DumpsObj(KeyPrompt, text))
        ai_json == <<LBRACE, DQ>> \o KeyPrompt \o <<DQ, COLON, SP>>
                   \o <<DQ>> \o text \o <<DQ>> \o <<RBRACE>>
    IN  LoadsObj(nested_json).ok /\ LoadsObj(ai_json).ok

\* TRUE iff none of the three tests raises.
SelfCheck(text) ==
    LET nested_json == DumpsObj(KeyOuter, DumpsObj(KeyPrompt, text))
        ai_json == <<LBRACE, DQ>> \o KeyPrompt \o <<DQ, COLON, SP>>
                   \o DumpsStr(text) \o <<RBRACE>>
    IN  LoadsObj(nested_json).ok /\ LoadsObj(ai_json).ok

(***************************************************************************)
(* The document model (python-docx) as extract_text reads it.              *)
(*                                                                         *)
(* A body is a sequence of top-level blocks.  Every XML element has an     *)
(* identity: <<i>> for top-level block i, <<i, r, c>> for the paragraph of *)
(* cell c of row r of table i.  doc.paragraphs and doc.tables are lists of *)
(* objects that refer to the top-level elements by identity; the order in  *)
(* which the two lists enumerate them is part of the document model.  A    *)
(* table may hold a nested table: one row of one cell, placed in the first *)
(* cell of the first row before that cell's paragraph.                     *)
(***************************************************************************)
Paragraph(text, numPr, ilvl) ==
    [tag |-> "p", text |-> text, numPr |-> numPr, ilvl |-> ilvl, rows |-> <<>>,
     nested |-> FALSE]

Table(rows) ==
    [tag |-> "tbl", text |-> <<>>, numPr |-> FALSE, ilvl |-> <<>>, rows |-> rows,
     nested |-> FALSE]

NestedTable(rows) ==
    [tag |-> "tbl", text |-> <<>>, numPr |-> FALSE, ilvl |-> <<>>, rows |-> rows,
     nested |-> TRUE]

\* The text of the paragraph in the cell of a nested table: "n".
NestedText == <<Letter(14)>>

\* Indices of the blocks of body with the given tag, in body order.
BlocksTagged(body, tag) ==
    LET Tagged(i) == body[i].tag = tag
    IN  SelectSeq([i \in 1..Len(body) |-> i], Tagged)

Reverse(s) == [i \in 1..Len(s) |-> s[Len(s) + 1 - i]]

\* The elements of one block in document order: the block's own element,
\* then its descendants.  A paragraph has a run; a table has rows, cells and
\* one paragraph per cell; a nested table comes with its row, cell and
\* paragraph.
Element(tag, id, numPr, ilvl) == [tag |-> tag, id |-> id, numPr |-> numPr, ilvl |-> ilvl]

NestedElements(i, r, c) ==
    <<Element("tbl", <<i, r, c, 1>>, FALSE, <<>>),
      Element("tr", <<i, r, c, 1, 1>>, FALSE, <<>>),
      Element("tc", <<i, r, c, 1, 1, 1, 0>>, FALSE, <<>>),
      Element("p", <<i, r, c, 1, 1, 1>>, FALSE, <<>>)>>

BlockElements(body, i) ==
    LET b == body[i] IN
    IF b.tag = "p"
    THEN <<Element("p", <<i>>, b.numPr, b.ilvl), Element("r", <<i, 0>>, FALSE, <<>>)>>
    ELSE <<Element("tbl", <<i>>, FALSE, <<>>)>> \o
         Concat([r \in 1..Len(b.rows) |->
             <<Element("tr", <<i, r>>, FALSE, <<>>)>> \o
             Concat([c \in 1..Len(b.rows[r]) |->
                 <<Element("tc", <<i, r, c, 0>>, FALSE, <<>>)>> \o
                 (IF b.nested /\ r = 1 /\ c = 1 THEN NestedElements(i, r, c) ELSE <<>>) \o
                 <<Element("p", <<i, r, c>>, FALSE, <<>>)>>])])

\* doc.element.body.iter(): the body itself, then every descendant in
\* document order, the section properties last.
BodyIter(body) ==
    <<Element("body", <<>>, FALSE, <<>>)>> \o
    Concat([i \in 1..Len(body) |-> BlockElements(body, i)]) \o
    <<Element("sectPr", <<0>>, FALSE, <<>>)>>

\* doc.paragraphs / doc.tables: the objects, in the lists' enumeration order.
DocParagraphs(doc) ==
    [k \in 1..Len(doc.paragraphs) |->
        [element |-> <<doc.paragraphs[k]>>, text |-> doc.body[doc.paragraphs[k]].text]]

DocTables(doc) ==
    [k \in 1..Len(doc.tables) |->
        [element |-> <<doc.tables[k]>>, rows |-> doc.body[doc.tables[k]].rows]]

(***************************************************************************)
(* DocxParser.extract_text, lines 93-151: the walk.                        *)
(***************************************************************************)
None == [element |-> <<-1>>]

\* A variant that compares the tags of the two elements and not their
\* identity: every element resolves to the first object of the list.
FindObject_by_tag(objects, element) ==
    IF objects = <<>> THEN None ELSE objects[1]

\* for o in objects: if o._element is element: found = o; break
RECURSIVE FindObject(_, _)
FindObject(objects, element) ==
    IF objects = <<>> THEN None
    ELSE IF Head(objects).element = element.id THEN Head(objects)
    ELSE FindObject(Tail(objects), element)

RECURSIVE Spaces(_)
Spaces(n) == IF n = 0 THEN <<>> ELSE <<SP>> \o Spaces(n - 1)

\* "  " * indent + "• "
ListFormat(element) ==
    LET indent == IF element.ilvl # <<>> THEN element.ilvl[1] ELSE 0
    IN  Spaces(2 * indent) \o <<BULLET, SP>>

\* A variant that tests for blank text only when the paragraph is not a
\* list item.
ParagraphParts_bare_bullets(paragraph, element) ==
    IF paragraph = None THEN <<>>
    ELSE IF element.numPr THEN <<ListFormat(element) \o paragraph.text>>
    ELSE IF Strip(paragraph.text) # <<>> THEN <<paragraph.text>>
    ELSE <<>>

\* lines 112-130: the fragments a resolved paragraph adds to text_parts
ParagraphParts(paragraph, element) ==
    IF paragraph # None /\ Strip(paragraph.text) # <<>>
    THEN IF element.numPr
         THEN <<ListFormat(element) \o paragraph.text>>
         ELSE <<paragraph.text>>
    ELSE <<>>

\* A variant that leaves the blank cells of a row out.
RowText_skip_blank_cells(row) ==
    LET NonBlank(cell) == Strip(cell) # <<>>
        cells == SelectSeq(row, NonBlank)
    IN  Join(<<SP, PIPE, SP>>, [c \in 1..Len(cells) |-> Strip(cells[c])])

\* lines 144-148: " | ".join(cell.text.strip() for cell in row.cells)
RowText(row) == Join(<<SP, PIPE, SP>>, [c \in 1..Len(row) |-> Strip(row[c])])

\* lines 142-151: the fragments a resolved table adds to text_parts
TableParts(table) ==
    IF table # None THEN [r \in 1..Len(table.rows) |-> RowText(table.rows[r])] ELSE <<>>

\* element.tag.endswith(...) on the tags of the model
EndsWithBody(tag) == tag = "body"
EndsWithP(tag) == tag = "p"
EndsWithTbl(tag) == tag = "tbl"

\* A variant that resolves every paragraph element of the document, also
\* those inside table cells.
ElementParts_every_paragraph(doc, element) ==
    LET id == element.id
        paragraph_text ==
            IF Len(id) = 1 THEN doc.body[id[1]].text
            ELSE IF Len(id) = 3 THEN doc.body[id[1]].rows[id[2]][id[3]]
            ELSE NestedText
    IN  IF EndsWithBody(element.tag) THEN <<>>
        ELSE IF EndsWithP(element.tag)
             THEN ParagraphParts([element |-> id, text |-> paragraph_text], element)
        ELSE IF EndsWithTbl(element.tag)
             THEN TableParts(FindObject(DocTables(doc), element))
        ELSE <<>>

\* One iteration of the loop of lines 97-151.
ElementParts(doc, element) ==
    IF EndsWithBody(element.tag) THEN <<>>
    ELSE IF EndsWithP(element.tag)
         THEN ParagraphParts(FindObject(DocParagraphs(doc), element), element)
    ELSE IF EndsWithTbl(element.tag)
         THEN TableParts(FindObject(DocTables(doc), element))
    ELSE <<>>

\* A variant that reads the two collections one after the other (all
\* paragraphs, then all tables) instead of walking the body.
WalkBody_collections(doc) ==
    LET ps == DocParagraphs(doc)
        ts == DocTables(doc)
    IN  Concat([k \in 1..Len(ps) |->
                   ParagraphParts(ps[k], Element("p", ps[k].element,
                                                 doc.body[ps[k].element[1]].numPr,
                                                 doc.body[ps[k].element[1]].ilvl))])
        \o Concat([k \in 1..Len(ts) |-> TableParts(ts[k])])

\* lines 94-151: text_parts after the loop over doc.element.body.iter()
WalkBody(doc) ==
    LET elements == BodyIter(doc.body)
    IN  Concat([k \in 1..Len(elements) |-> ElementParts(doc, elements[k])])

\* lines 153-158: "\n\n".join(text_parts), then re.sub(r'\n{3,}', '\n\n', text)
\* (of a run of three or more newlines the last two stay)
CollapseNewlines(text) ==
    Concat([i \in 1..Len(text) |->
        IF i + 2 <= Len(text) /\ text[i] = LF /\ text[i + 1] = LF /\ text[i + 2] = LF
        THEN <<>> ELSE <<text[i]>>])

Assemble(text_parts) == CollapseNewlines(Join(<<LF, LF>>, text_parts))

(***************************************************************************)
(* DocxService.extract_text (docx_service.py), the extractor of the        *)
(* customer-intent endpoint for .docx and .doc files.                      *)
(***************************************************************************)
\* lines 42-44: the texts of the non-blank paragraphs of doc.paragraphs
ServiceParagraphParts(paragraphs) ==
    LET NonBlank(p) == Strip(p.text) # <<>>
        kept == SelectSeq(paragraphs, NonBlank)
    IN  [k \in 1..Len(kept) |-> kept[k].text]

\* lines 50-53: the trimmed texts of the non-blank cells of a row
row_texts(row) ==
    LET NonBlank(cell) == Strip(cell) # <<>>
        kept == SelectSeq(row, NonBlank)
    IN  [c \in 1..Len(kept) |-> Strip(kept[c])]

\* A variant that joins the trimmed texts of all cells and drops no row.
ServiceRowParts_keep_all(row) ==
    <<Join(<<SP, PIPE, SP>>, [c \in 1..Len(row) |-> Strip(row[c])])>>

\* lines 54-55: if row_texts: text_parts.append(" | ".join(row_texts))
ServiceRowParts(row) ==
    IF row_texts(row) # <<>> THEN <<Join(<<SP, PIPE, SP>>, row_texts(row))>> ELSE <<>>

\* lines 48-55: the fragments of the tables of doc.tables
ServiceTableParts(tables) ==
    Concat([k \in 1..Len(tables) |->
        Concat([r \in 1..Len(tables[k].rows) |-> ServiceRowParts(tables[k].rows[r])])])

\* lines 41-55: text_parts after both loops
ServiceParts(d) ==
    ServiceParagraphParts(DocParagraphs(d)) \o ServiceTableParts(DocTables(d))

ServiceResult(kind, t) == [kind |-> kind, text |-> t]

\* The whole call: a buffer that docx.Document cannot load (or None, whose
\* length cannot be taken) ends in DocxServiceError (lines 67-71).
DocxService_extract_text(fc) ==
    IF fc.kind = "docx"
    THEN ServiceResult("ok", Join(<<LF>>, ServiceParts(fc.doc)))
    ELSE ServiceResult("DocxServiceError", <<>>)

(***************************************************************************)
(* TokenService.count_tokens and the settings, as extract_text uses them.  *)
(***************************************************************************)
DOCUMENT_TOKEN_LIMIT == 8192

DEFAULT_LIMIT == 4096

Models == {"gpt-3.5-turbo", "gpt-4-32k", "gpt-4o"}

\* TokenService.MODEL_LIMITS.get(model, 4096)
ModelLimit(model) ==
    IF model = "gpt-3.5-turbo" THEN 4096
    ELSE IF model = "gpt-3.5-turbo-16k" THEN 16384
    ELSE IF model = "gpt-4" THEN 8192
    ELSE IF model = "gpt-4-32k" THEN 32768
    ELSE IF model = "gpt-4-turbo" THEN 128000
    ELSE DEFAULT_LIMIT

\* What the tokenizer (tiktoken) answers for a text: it fails, or it returns
\* a token list of some length.  The empty text has no tokens; for any other
\* text the length is left open, the short texts of the model standing for
\* documents of any size.
TokenCounts == {100, 5000, 9000}

EncodeAnswers(text) ==
    {[ok |-> FALSE, n |-> 0]} \cup
    (IF text = <<>> THEN {[ok |-> TRUE, n |-> 0]}
     ELSE {[ok |-> TRUE, n |-> c] : c \in TokenCounts})

\* What the process environment gives OpenAISettings(): a configuration the
\* validator rejects, or one with some default model.
Environments == {[ok |-> FALSE, default_model |-> ""]} \cup
                {[ok |-> TRUE, default_model |-> m] : m \in Models}

NoTokenResult == [status |-> "none", token_count |-> 0, model_limit |-> 0]

\* TokenService.count_tokens(text, model) with the tokenizer's answer enc
count_tokens(model, enc) ==
    IF enc.ok
    THEN [status |-> "ok", token_count |-> enc.n, model_limit |-> ModelLimit(model)]
    ELSE [status |-> "TokenServiceError", token_count |-> 0, model_limit |-> 0]

\* lines 181-183: settings = OpenAISettings(); TokenService.count_tokens(...)
TokenCheck(env, enc) ==
    IF env.ok THEN count_tokens(env.default_model, enc)
    ELSE [status |-> "SettingsError", token_count |-> 0, model_limit |-> 0]

\* A variant that compares the count with the limit of the configured model.
GateRaises_model_limit(token_result) ==
    token_result.status = "ok" /\ token_result.token_count > token_result.model_limit

\* A variant that lets every error of the token step escape.
GateRaises_strict(token_result) ==
    token_result.status # "ok" \/ token_result.token_count > DOCUMENT_TOKEN_LIMIT

\* lines 189-200: TRUE iff the token step leaves extract_text with an
\* exception (TokenLimitError); every other error is printed and dropped.
GateRaises(token_result) ==
    token_result.status = "ok" /\ token_result.token_count > DOCUMENT_TOKEN_LIMIT

\* A variant that also requires the text to be non-empty.
OutputValid_nonempty(text) == text \in Seq(Nat) /\ text # <<>>

\* lines 202-203: assert isinstance(text, str)
OutputValid(text) == text \in Seq(Nat)

(***************************************************************************)
(* parse_document: the structure built from the two collections.  The      *)
(* paragraphs of the document models carry no heading style.               *)
(***************************************************************************)
UntitledDocument == <<85, 110, 116, 105, 116, 108, 101, 100, 32, 68, 111, 99, 117, 109, 101, 110, 116>>

\* lines 260-264
get_title(doc) ==
    LET paragraphs == DocParagraphs(doc)
    IN  IF paragraphs # <<>> /\ paragraphs[1].text # <<>> THEN paragraphs[1].text
        ELSE UntitledDocument

\* lines 267-294: the texts of the non-blank paragraphs
get_paragraphs(doc) ==
    LET paragraphs == DocParagraphs(doc)
        NonBlank(p) == Strip(p.text) # <<>>
        kept == SelectSeq(paragraphs, NonBlank)
    IN  [i \in 1..Len(kept) |-> kept[i].text]

\* lines 297-314: the cell texts of every table, untrimmed
get_tables(doc) ==
    LET tables == DocTables(doc)
    IN  [i \in 1..Len(tables) |-> tables[i].rows]

(***************************************************************************)
(* State.                                                                  *)
(***************************************************************************)
VARIABLES
    san_pc,        \* position of the sanitizer run: "idle", "input", "sanitized", "resanitized", "checked"
    san_text,      \* the text x given to _make_json_compatible
    san_out,       \* T = _make_json_compatible(x)
    san_again,     \* _make_json_compatible(T)
    san_single,    \* parse(stringify({x: T}))
    san_double,    \* parse(parse(stringify({outer: stringify({p: T})})).outer)
    san_selfcheck  \* result of the self-check of extract_text on T

san_vars == <<san_pc, san_text, san_out, san_again, san_single, san_double, san_selfcheck>>

VARIABLES
    method,        \* the method called: "extract_text" or "parse_document"
    file_content,  \* the argument of the call
    result,        \* the structure parse_document builds
    pc,            \* position of the call: "idle", "start", "loaded", "walked", "sanitized", "done"
    doc,           \* the document model docx.Document(...) returned
    text_parts,    \* the fragments collected by the walk
    text,          \* the assembled, then sanitized text
    token_result,  \* what the token step obtained
    outcome        \* how the call ended: the returned text or the exception raised

ext_vars == <<method, file_content, result, pc, doc, text_parts, text, token_result, outcome>>

VARIABLES
    api_pc,        \* position of the request: "idle", "received", "extracted", "answered"
    api_content,   \* the bytes read from the uploaded file
    api_result,    \* how DocxParser.extract_text ended for these bytes
    api_response   \* the HTTP response of extract_document_text

api_vars == <<api_pc, api_content, api_result, api_response>>

VARIABLES
    raw_pc,        \* position of the call: "idle", "decoding", "decoded", "done"
    raw_service,   \* "txt" (TxtService) or "markdown" (MarkdownService)
    raw_bytes,     \* the file_content argument, a sequence of bytes
    raw_i,         \* index of the encoding tried next
    raw_content,   \* content: None or the decoded text, with the encoding used
    raw_result     \* the returned text or the exception raised

raw_vars == <<raw_pc, raw_service, raw_bytes, raw_i, raw_content, raw_result>>

VARIABLES
    ip_pc,         \* position of the run: "idle", "input", "sanitized", "done"
    ip_content,    \* the text given to both sanitizers
    ip_sanitized,  \* InputProcessingService.sanitize_text(content)
    ip_compat      \* DocxParser._make_json_compatible(content)

ip_vars == <<ip_pc, ip_content, ip_sanitized, ip_compat>>

VARIABLES
    ds_pc,         \* position of the call: "idle", "start", "loaded", "paragraphs", "tables", "done"
    ds_content,    \* the file_content argument of DocxService.extract_text
    ds_doc,        \* the document docx.Document(...) returned
    ds_parts,      \* text_parts
    ds_result      \* the returned text or the exception raised

ds_vars == <<ds_pc, ds_content, ds_doc, ds_parts, ds_result>>

\* State of the services behind the customer-intent endpoint.
VARIABLES
    ci_pc,             \* position of the request: "idle", "received", "extracted", "processed",
                       \* "validated", "generated", "raised", "answered"
    ci_file,           \* the uploaded file
    ci_model_config,   \* settings.model_config as the tokenizer service reads it
    ci_document_text,  \* document_text
    ci_processed_text, \* processed_text
    ci_token_info,     \* token_info
    ci_intent_result,  \* intent_result
    ci_raised,         \* the exception that reached generate_customer_intent
    ci_response,       \* the response or the HTTPException of the request
    ci_ai_calls        \* number of calls of ai_service.generate_completion

ci_vars == <<ci_pc, ci_file, ci_model_config, ci_document_text, ci_processed_text,
             ci_token_info, ci_intent_result, ci_raised, ci_response, ci_ai_calls>>

\* Two calls of DocxParser.extract_text in one process, each with its own
\* frame of local variables, and the state of the process they both touch.
VARIABLES
    cc_pc,          \* position of each call: "idle", "start", "loaded", "walked",
                    \* "sanitized", "done"
    cc_content,     \* the argument file_content of each call
    cc_doc,         \* the local doc of each call
    cc_text_parts,  \* the local text_parts of each call
    cc_text,        \* the local text of each call
    cc_enc,         \* what the tokenizer answered to each call
    cc_outcome,     \* what each call returned or raised
    cc_env,         \* the process environment OpenAISettings() reads
    cc_stdout       \* the calls whose warning was printed, in order

cc_vars == <<cc_pc, cc_content, cc_doc, cc_text_parts, cc_text, cc_enc, cc_outcome,
             cc_env, cc_stdout>>

service_vars == <<ip_vars, ds_vars, ci_vars, cc_vars>>

other_vars == <<api_vars, raw_vars, service_vars>>

vars == <<san_vars, ext_vars, other_vars>>

(***************************************************************************)
(* SpecSan: the sanitizer on every text of at most MaxLen characters.      *)
(***************************************************************************)
\* U+2018, U+2019 (single) and U+201C, U+201D (double)
TypographicSingle == {8216, 8217}

TypographicDouble == {8220, 8221}

SanAlphabet ==
    {TAB, LF, CR, DEL, SP, DQ, BS, Letter(1), EM_DASH, ELLIPSIS}
        \cup TypographicSingle \cup TypographicDouble

\* The text  Hello, "World"
HelloWorld == <<72, 101, 108, 108, 111, 44, 32, 34, 87, 111, 114, 108, 100, 34>>

\* Every text of at most MaxLen characters of the alphabet, and the example.
Texts == UNION {[1..n -> SanAlphabet] : n \in 0..MaxLen} \cup {HelloWorld}

NoResult == [ok |-> FALSE, key |-> <<>>, val |-> <<>>, rest |-> <<>>]

SanIdle ==
    /\ san_pc = "idle"
    /\ san_text = <<>>
    /\ san_out = <<>>
    /\ san_again = <<>>
    /\ san_single = NoResult
    /\ san_double = NoResult
    /\ san_selfcheck = FALSE

EmptyDoc == [body |-> <<>>, paragraphs |-> <<>>, tables |-> <<>>]

NoOutcome == [kind |-> "none", text |-> <<>>, token_count |-> 0, limit |-> 0]

NoStructure == [title |-> <<>>, paragraphs |-> <<>>, tables |-> <<>>, headings |-> <<>>]

ExtIdle ==
    /\ method = "none"
    /\ file_content = [kind |-> "None", doc |-> EmptyDoc]
    /\ result = NoStructure
    /\ pc = "idle"
    /\ doc = EmptyDoc
    /\ text_parts = <<>>
    /\ text = <<>>
    /\ token_result = NoTokenResult
    /\ outcome = NoOutcome

NoResponse == [status |-> 0, error_type |-> "", detail |-> <<>>, document |-> <<>>]

NoApiResult == [kind |-> "none", message |-> "", text |-> <<>>, token_count |-> 0, limit |-> 0]

ApiIdle ==
    /\ api_pc = "idle"
    /\ api_content = [kind |-> "empty", doc |-> EmptyDoc]
    /\ api_result = NoApiResult
    /\ api_response = NoResponse

NoContent == [ok |-> FALSE, encoding |-> "", text |-> <<>>]

NoRawResult == [kind |-> "none", text |-> <<>>]

RawIdle ==
    /\ raw_pc = "idle"
    /\ raw_service = "none"
    /\ raw_bytes = <<>>
    /\ raw_i = 0
    /\ raw_content = NoContent
    /\ raw_result = NoRawResult

IpIdle ==
    /\ ip_pc = "idle"
    /\ ip_content = <<>>
    /\ ip_sanitized = <<>>
    /\ ip_compat = <<>>

NoServiceResult == [kind |-> "none", text |-> <<>>]

DsIdle ==
    /\ ds_pc = "idle"
    /\ ds_content = [kind |-> "None", doc |-> EmptyDoc]
    /\ ds_doc = EmptyDoc
    /\ ds_parts = <<>>
    /\ ds_result = NoServiceResult

CiIdle ==
    /\ ci_pc = "idle"
    /\ ci_file = [filename |-> "", content |-> [kind |-> "unreadable", bytes |-> <<>>, doc |-> EmptyDoc]]
    /\ ci_model_config = [max_tokens |-> <<>>]
    /\ ci_document_text = <<>>
    /\ ci_processed_text = <<>>
    /\ ci_token_info = [token_count |-> 0, model_limit |-> 0, tokens_remaining |-> 0]
    /\ ci_intent_result = "none"
    /\ ci_raised = [kind |-> "none", value |-> <<>>]
    /\ ci_response = [status |-> 0, body |-> <<>>]
    /\ ci_ai_calls = 0

Calls == {1, 2}

NoAnswer == [ok |-> FALSE, n |-> 0]

CcIdle ==
    /\ cc_pc = [i \in Calls |-> "idle"]
    /\ cc_content = [i \in Calls |-> [kind |-> "None", doc |-> EmptyDoc]]
    /\ cc_doc = [i \in Calls |-> EmptyDoc]
    /\ cc_text_parts = [i \in Calls |-> <<>>]
    /\ cc_text = [i \in Calls |-> <<>>]
    /\ cc_enc = [i \in Calls |-> NoAnswer]
    /\ cc_outcome = [i \in Calls |-> NoApiResult]
    /\ cc_env = [ok |-> FALSE, default_model |-> ""]
    /\ cc_stdout = <<>>

ServiceIdle == IpIdle /\ DsIdle /\ CiIdle /\ CcIdle

InitSan ==
    /\ san_pc = "input"
    /\ san_text \in Texts
    /\ san_out = <<>>
    /\ san_again = <<>>
    /\ san_single = NoResult
    /\ san_double = NoResult
    /\ san_selfcheck = FALSE
    /\ ExtIdle
    /\ ApiIdle
    /\ RawIdle
    /\ ServiceIdle

\* T = DocxParser._make_json_compatible(x)
SanitizeCall ==
    /\ san_pc = "input"
    /\ san_out' = make_json_compatible(san_text)
    /\ san_pc' = "sanitized"
    /\ UNCHANGED <<san_text, san_again, san_single, san_double, san_selfcheck>>
    /\ UNCHANGED ext_vars
    /\ UNCHANGED other_vars

\* the pipeline applied to its own output
ResanitizeCall ==
    /\ san_pc = "sanitized"
    /\ san_again' = make_json_compatible(san_out)
    /\ san_pc' = "resanitized"
    /\ UNCHANGED <<san_text, san_out, san_single, san_double, san_selfcheck>>
    /\ UNCHANGED ext_vars
    /\ UNCHANGED other_vars

\* the round trips through json.dumps / json.loads, and the self-check
JsonRoundTrip ==
    /\ san_pc = "resanitized"
    /\ san_single' = LoadsObj(DumpsObj(<<120>>, san_out))
    /\ san_double' =
          LET J1 == DumpsObj(<<112>>, san_out)
              J2 == DumpsObj(KeyOuter, J1)
              outer == LoadsObj(J2)
          IN  IF outer.ok THEN LoadsObj(outer.val) ELSE JsonFail
    /\ san_selfcheck' = SelfCheck(san_out)
    /\ san_pc' = "checked"
    /\ UNCHANGED <<san_text, san_out, san_again>>
    /\ UNCHANGED ext_vars
    /\ UNCHANGED other_vars

NextSan == SanitizeCall \/ ResanitizeCall \/ JsonRoundTrip

SpecSan == InitSan /\ [][NextSan]_vars

(***************************************************************************)
(* Spec: DocxParser.extract_text on bounded document models.               *)
(***************************************************************************)
\* Paragraphs.  A non-blank paragraph is plain or a list item; a list item's
\* level is absent (the code then takes 0), 1 or MaxLevel.  A blank
\* paragraph is empty and plain, or whitespace-only and a list item.
BlankText == <<SP>>

ListMarks ==
    {[numPr |-> FALSE, ilvl |-> <<>>], [numPr |-> TRUE, ilvl |-> <<>>]} \cup
    {[numPr |-> TRUE, ilvl |-> <<l>>] : l \in {1, MaxLevel}}

\* The text of a paragraph that holds "a", a line break and a carriage
\* return character.
BrokenLine == <<Letter(1), LF, CR>>

Paragraphs ==
    {Paragraph(<<Letter(1)>>, m.numPr, m.ilvl) : m \in ListMarks} \cup
    {Paragraph(<<>>, FALSE, <<>>), Paragraph(BlankText, TRUE, <<1>>)} \cup
    {Paragraph(BrokenLine, FALSE, <<>>)}

\* Tables: one of a single row, with a nested table in its first cell, and
\* one of MaxRows rows.  Row r has two cells: a text to be trimmed, different
\* in each row, and a blank cell.
RowAt(r) == << <<SP, Letter(3 + r)>>, <<>> >>

Tables == {NestedTable(<<RowAt(1)>>), Table([r \in 1..MaxRows |-> RowAt(r)])}

Blocks == Paragraphs \cup Tables

\* The orders in which a collection may enumerate its objects: body order
\* and the reverse of it.
Orders(indices) == {indices, Reverse(indices)}

\* The argument is None, not a bytes object, an empty buffer, a buffer that
\* is no document, or the bytes of a document model: a body of at most
\* MaxBlocks blocks and the enumeration orders of its two collections.
IsFileContent(fc) ==
    \/ \E k \in {"None", "not_bytes", "empty", "corrupt"} : fc = [kind |-> k, doc |-> EmptyDoc]
    \/ \E n \in 0..MaxBlocks : \E b \in [1..n -> Blocks] :
          \E ps \in Orders(BlocksTagged(b, "p")), ts \in Orders(BlocksTagged(b, "tbl")) :
             fc = [kind |-> "docx", doc |-> [body |-> b, paragraphs |-> ps, tables |-> ts]]

Init ==
    /\ method \in {"extract_text", "parse_document"}
    /\ IsFileContent(file_content)
    /\ method = "parse_document" => Len(file_content.doc.body) <= MaxParsedBlocks
    /\ result = NoStructure
    /\ pc = "start"
    /\ doc = EmptyDoc
    /\ text_parts = <<>>
    /\ text = <<>>
    /\ token_result = NoTokenResult
    /\ outcome = NoOutcome
    /\ SanIdle
    /\ ApiIdle
    /\ RawIdle
    /\ ServiceIdle

Raise(kind) == [kind |-> kind, text |-> <<>>, token_count |-> 0, limit |-> 0]

\* A variant without the assertion on the length of the buffer: the empty
\* buffer reaches docx.Document, whose error is wrapped.
RejectInput_no_length_check ==
    /\ pc = "start"
    /\ file_content.kind \in {"None", "not_bytes", "empty"}
    /\ outcome' = IF file_content.kind = "empty" THEN Raise("DocxParserError")
                  ELSE Raise("AssertionError")
    /\ pc' = "done"
    /\ UNCHANGED <<method, file_content, result, doc, text_parts, text, token_result>>
    /\ UNCHANGED san_vars
    /\ UNCHANGED other_vars

\* lines 36-39 and 84-87: the three assertions on the argument, outside the try
RejectInput ==
    /\ pc = "start"
    /\ file_content.kind \in {"None", "not_bytes", "empty"}
    /\ outcome' = Raise("AssertionError")
    /\ pc' = "done"
    /\ UNCHANGED <<method, file_content, result, doc, text_parts, text, token_result>>
    /\ UNCHANGED san_vars
    /\ UNCHANGED other_vars

\* A variant in which the library's exception leaves the method as it is.
ParseFailure_unwrapped ==
    /\ pc = "start"
    /\ file_content.kind = "corrupt"
    /\ outcome' = Raise("BadZipFile")
    /\ pc' = "done"
    /\ UNCHANGED <<method, file_content, result, doc, text_parts, text, token_result>>
    /\ UNCHANGED san_vars
    /\ UNCHANGED other_vars

\* lines 41-43, 66-67 and 89-91, 213-214: docx.Document raises an exception,
\* which the last except clause wraps
ParseFailure ==
    /\ pc = "start"
    /\ file_content.kind = "corrupt"
    /\ outcome' = Raise("DocxParserError")
    /\ pc' = "done"
    /\ UNCHANGED <<method, file_content, result, doc, text_parts, text, token_result>>
    /\ UNCHANGED san_vars
    /\ UNCHANGED other_vars

\* lines 43 and 91: doc = docx.Document(io.BytesIO(file_content))
LoadDocument ==
    /\ pc = "start"
    /\ file_content.kind = "docx"
    /\ doc' = file_content.doc
    /\ pc' = "loaded"
    /\ UNCHANGED <<method, file_content, result, text_parts, text, token_result, outcome>>
    /\ UNCHANGED san_vars
    /\ UNCHANGED other_vars

\* lines 93-151: the loop over the body's elements
Walk ==
    /\ method = "extract_text"
    /\ pc = "loaded"
    /\ text_parts' = WalkBody(doc)
    /\ pc' = "walked"
    /\ UNCHANGED <<method, file_content, result, doc, text, token_result, outcome>>
    /\ UNCHANGED san_vars
    /\ UNCHANGED other_vars

\* lines 153-177: join, collapse, sanitize, self-check
Sanitize ==
    /\ pc = "walked"
    /\ LET t == make_json_compatible(Assemble(text_parts)) IN
       /\ text' = t
       /\ IF SelfCheck(t)
          THEN pc' = "sanitized" /\ outcome' = outcome
          ELSE pc' = "done" /\ outcome' = Raise("DocxParserError")
    /\ UNCHANGED <<method, file_content, result, doc, text_parts, token_result>>
    /\ UNCHANGED san_vars
    /\ UNCHANGED other_vars

\* lines 179-206: the token step and the return
TokenGate ==
    /\ pc = "sanitized"
    /\ \E env \in Environments, enc \in EncodeAnswers(text) :
          LET r == TokenCheck(env, enc) IN
          /\ token_result' = r
          /\ outcome' = IF GateRaises(r)
                        THEN [kind |-> "TokenLimitError", text |-> <<>>,
                              token_count |-> r.token_count, limit |-> DOCUMENT_TOKEN_LIMIT]
                        ELSE IF ~OutputValid(text) THEN Raise("AssertionError")
                        ELSE [kind |-> "ok", text |-> text, token_count |-> 0, limit |-> 0]
    /\ pc' = "done"
    /\ UNCHANGED <<method, file_content, result, doc, text_parts, text>>
    /\ UNCHANGED san_vars
    /\ UNCHANGED other_vars

\* lines 46-62: parse_document builds and returns the structure
ParseStructure ==
    /\ method = "parse_document"
    /\ pc = "loaded"
    /\ result' = [title |-> get_title(doc), paragraphs |-> get_paragraphs(doc),
                  tables |-> get_tables(doc), headings |-> <<>>]
    /\ outcome' = [kind |-> "ok", text |-> <<>>, token_count |-> 0, limit |-> 0]
    /\ pc' = "done"
    /\ UNCHANGED <<method, file_content, doc, text_parts, text, token_result>>
    /\ UNCHANGED san_vars
    /\ UNCHANGED other_vars

Next ==
    RejectInput \/ ParseFailure \/ LoadDocument \/ Walk \/ Sanitize \/ TokenGate \/ ParseStructure

Spec == Init /\ [][Next]_vars


(***************************************************************************)
(* SpecApi: the endpoint POST /documents/extract-text                      *)
(* (extract_document_text) around DocxParser.extract_text.                 *)
(***************************************************************************)
\* An exception of DocxParser.extract_text with its message.
RaiseWith(kind, message) ==
    [kind |-> kind, message |-> message, text |-> <<>>, token_count |-> 0, limit |-> 0]

\* Whether the json module raises in the self-check for a reason other than
\* the text (json.dumps and json.loads round-trip every text; what remains
\* is an error of the interpreter such as MemoryError on a very large text).
JsonFaults == {FALSE, TRUE}

\* DocxParser.extract_text(file_content) as one call, lines 84-214, for the
\* json fault, the environment and the tokenizer's answer given.
extract_text(fc, json_fault, env, enc) ==
    IF fc.kind = "None" THEN RaiseWith("AssertionError", "File content cannot be None")
    ELSE IF fc.kind = "not_bytes" THEN RaiseWith("AssertionError", "File content must be bytes")
    ELSE IF fc.kind = "empty" THEN RaiseWith("AssertionError", "File content cannot be empty")
    ELSE IF fc.kind # "docx"
    THEN RaiseWith("DocxParserError", "Error extracting text from document")
    ELSE LET t == make_json_compatible(Assemble(WalkBody(fc.doc)))
             r == TokenCheck(env, enc)
         IN  IF json_fault \/ ~SelfCheck(t)
             THEN RaiseWith("DocxParserError", "Generated text is not JSON-compatible")
             ELSE IF GateRaises(r)
             THEN [kind |-> "TokenLimitError", message |-> "Document exceeds token limit",
                   text |-> <<>>, token_count |-> r.token_count,
                   limit |-> DOCUMENT_TOKEN_LIMIT]
             ELSE IF ~OutputValid(t) THEN RaiseWith("AssertionError", "Result must be a string")
             ELSE [kind |-> "ok", message |-> "", text |-> t, token_count |-> 0, limit |-> 0]

\* docx_parser.py lines 11-17: TokenLimitError is a DocxParserError.
IsInstance(kind, class) ==
    \/ kind = class
    \/ kind = "TokenLimitError" /\ class = "DocxParserError"

Response(status, error_type, detail) ==
    [status |-> status, error_type |-> error_type, detail |-> detail, document |-> <<>>]

\* documents.py lines 117-127: the endpoint's own nested-JSON test
NestedTest(document_text) ==
    LoadsObj(DumpsObj(KeyOuter, DumpsObj(KeyPrompt, document_text))).ok

\* A variant whose except clause for DocxParserError comes first.
Respond_parser_error_first(res) ==
    IF res.kind = "ok"
    THEN IF NestedTest(res.text)
         THEN [status |-> 200, error_type |-> "", detail |-> <<>>, document |-> res.text]
         ELSE Response(500, "", <<"Document text failed JSON compatibility validation">>)
    ELSE IF IsInstance(res.kind, "DocxParserError")
    THEN Response(422, "", <<"Error parsing document", res.message>>)
    ELSE IF IsInstance(res.kind, "TokenLimitError")
    THEN Response(413, "token_limit_exceeded", <<res.message>>)
    ELSE IF IsInstance(res.kind, "AssertionError")
    THEN Response(422, "", <<"Document validation error", res.message>>)
    ELSE Response(500, "", <<"An unexpected error occurred while processing the document.">>)

\* documents.py lines 113-166: the response for an outcome of extract_text;
\* the except clauses are tried in the order they are written.
Respond(res) ==
    IF res.kind = "ok"
    THEN IF NestedTest(res.text)
         THEN [status |-> 200, error_type |-> "", detail |-> <<>>, document |-> res.text]
         ELSE Response(500, "", <<"Document text failed JSON compatibility validation">>)
    ELSE IF IsInstance(res.kind, "TokenLimitError")
    THEN Response(413, "token_limit_exceeded", <<res.message>>)
    ELSE IF IsInstance(res.kind, "AssertionError")
    THEN Response(422, "", <<"Document validation error", res.message>>)
    ELSE IF IsInstance(res.kind, "DocxParserError")
    THEN Response(422, "", <<"Error parsing document", res.message>>)
    ELSE Response(500, "", <<"An unexpected error occurred while processing the document.">>)

\* The upload: reading it fails, it is empty, it is larger than 20MB, it is
\* no document, or it is a document of at most MaxUploadBlocks blocks whose
\* collections are in body order.
IsUpload(c) ==
    \/ \E k \in {"unreadable", "empty", "too_large", "corrupt"} :
          c = [kind |-> k, doc |-> EmptyDoc]
    \/ \E n \in 0..MaxUploadBlocks : \E b \in [1..n -> Blocks] :
          c = [kind |-> "docx",
               doc |-> [body |-> b, paragraphs |-> BlocksTagged(b, "p"),
                        tables |-> BlocksTagged(b, "tbl")]]

InitApi ==
    /\ api_pc = "received"
    /\ IsUpload(api_content)
    /\ api_result = NoApiResult
    /\ api_response = NoResponse
    /\ SanIdle
    /\ ExtIdle
    /\ RawIdle
    /\ ServiceIdle

\* documents.py lines 89-111: the checks before the extraction
RefuseUpload ==
    /\ api_pc = "received"
    /\ api_content.kind \in {"unreadable", "empty", "too_large"}
    /\ api_response' =
          IF api_content.kind = "unreadable"
          THEN Response(422, "", <<"Error reading the uploaded file.">>)
          ELSE IF api_content.kind = "empty"
          THEN Response(400, "", <<"Empty file was provided.">>)
          ELSE Response(413, "", <<"File too large. Maximum file size is 20MB.">>)
    /\ api_pc' = "answered"
    /\ UNCHANGED <<api_content, api_result>>
    /\ UNCHANGED <<san_vars, ext_vars, raw_vars, service_vars>>

\* documents.py line 115: document_text = DocxParser.extract_text(content)
ExtractCall ==
    /\ api_pc = "received"
    /\ api_content.kind \in {"corrupt", "docx"}
    /\ \E json_fault \in JsonFaults, env \in Environments :
          LET t == IF api_content.kind = "docx"
                   THEN make_json_compatible(Assemble(WalkBody(api_content.doc)))
                   ELSE <<>>
          IN  \E enc \in EncodeAnswers(t) :
                 api_result' = extract_text(api_content, json_fault, env, enc)
    /\ api_pc' = "extracted"
    /\ UNCHANGED <<api_content, api_response>>
    /\ UNCHANGED <<san_vars, ext_vars, raw_vars, service_vars>>

\* documents.py lines 117-154: the response
Answer ==
    /\ api_pc = "extracted"
    /\ api_response' = Respond(api_result)
    /\ api_pc' = "answered"
    /\ UNCHANGED <<api_content, api_result>>
    /\ UNCHANGED <<san_vars, ext_vars, raw_vars, service_vars>>

NextApi == RefuseUpload \/ ExtractCall \/ Answer

SpecApi == InitApi /\ [][NextApi]_vars

(***************************************************************************)
(* SpecRaw: TxtService.extract_text and MarkdownService.extract_text on    *)
(* every buffer of at most MaxBytes bytes.                                 *)
(***************************************************************************)
\* The UTF-8 byte-order mark EF BB BF
BOM == <<239, 187, 191>>

Undecodable == [ok |-> FALSE, text |-> <<>>]

IsContinuation(byte) == 128 <= byte /\ byte <= 191

\* bytes.decode('utf-8'), strict: the character that starts at byte i, as
\* [ok, n, cp] with n the number of bytes it takes.
Utf8Char(b, i) ==
    LET b1 == b[i]
        Cont(k) == i + k <= Len(b) /\ IsContinuation(b[i + k])
        bad == [ok |-> FALSE, n |-> 0, cp |-> 0]
    IN  IF b1 < 128 THEN [ok |-> TRUE, n |-> 1, cp |-> b1]
        ELSE IF 194 <= b1 /\ b1 <= 223
        THEN IF Cont(1)
             THEN [ok |-> TRUE, n |-> 2, cp |-> (b1 - 192) * 64 + (b[i + 1] - 128)]
             ELSE bad
        ELSE IF 224 <= b1 /\ b1 <= 239
        THEN IF /\ Cont(1) /\ Cont(2)
                /\ (b1 = 224 => b[i + 1] >= 160)
                /\ (b1 = 237 => b[i + 1] <= 159)
             THEN [ok |-> TRUE, n |-> 3,
                   cp |-> (b1 - 224) * 4096 + (b[i + 1] - 128) * 64 + (b[i + 2] - 128)]
             ELSE bad
        ELSE IF 240 <= b1 /\ b1 <= 244
        THEN IF /\ Cont(1) /\ Cont(2) /\ Cont(3)
                /\ (b1 = 240 => b[i + 1] >= 144)
                /\ (b1 = 244 => b[i + 1] <= 143)
             THEN [ok |-> TRUE, n |-> 4,
                   cp |-> (b1 - 240) * 262144 + (b[i + 1] - 128) * 4096
                          + (b[i + 2] - 128) * 64 + (b[i + 3] - 128)]
             ELSE bad
        ELSE bad

RECURSIVE DecodeUtf8From(_, _, _)
DecodeUtf8From(b, i, acc) ==
    IF i > Len(b) THEN [ok |-> TRUE, text |-> acc]
    ELSE LET c == Utf8Char(b, i)
         IN  IF c.ok THEN DecodeUtf8From(b, i + c.n, Append(acc, c.cp)) ELSE Undecodable

DecodeUtf8(b) == DecodeUtf8From(b, 1, <<>>)

\* bytes.decode('utf-8-sig'): a leading byte-order mark is skipped
DecodeUtf8Sig(b) ==
    IF Len(b) >= 3 /\ SubSeq(b, 1, 3) = BOM THEN DecodeUtf8From(b, 4, <<>>)
    ELSE DecodeUtf8(b)

\* bytes.decode('latin-1'): one character per byte
DecodeLatin1(b) == [ok |-> TRUE, text |-> b]

\* A variant whose fallback encoding is ASCII, which raises
\* UnicodeDecodeError for bytes above 127.
Decode_ascii_fallback(encoding, b) ==
    IF encoding = "utf-8" THEN DecodeUtf8(b)
    ELSE IF encoding = "utf-8-sig" THEN DecodeUtf8Sig(b)
    ELSE IF \A i \in 1..Len(b) : b[i] < 128 THEN [ok |-> TRUE, text |-> b]
    ELSE Undecodable

\* file_content.decode(encoding); ok is FALSE for UnicodeDecodeError
Decode(encoding, b) ==
    IF encoding = "utf-8" THEN DecodeUtf8(b)
    ELSE IF encoding = "utf-8-sig" THEN DecodeUtf8Sig(b)
    ELSE DecodeLatin1(b)

\* txt_service.py line 34, markdown_service.py line 38
encodings == <<"utf-8", "utf-8-sig", "latin-1">>

ServiceError(service) == IF service = "txt" THEN "TxtServiceError" ELSE "MarkdownServiceError"

\* The bytes of the buffers: space, "a", 0xA0, 0xC3 and the three bytes of
\* the byte-order mark.
RawAlphabet == {SP, Letter(1), 160, 195} \cup Range(BOM)

Buffers == UNION {[1..n -> RawAlphabet] : n \in 0..MaxBytes}

InitRaw ==
    /\ raw_pc = "decoding"
    /\ raw_service \in {"txt", "markdown"}
    /\ raw_bytes \in Buffers
    /\ raw_i = 1
    /\ raw_content = NoContent
    /\ raw_result = NoRawResult
    /\ SanIdle
    /\ ExtIdle
    /\ ApiIdle
    /\ ServiceIdle

\* One turn of the loop over the encodings (txt_service.py 37-47,
\* markdown_service.py 41-51); after the last encoding failed content is
\* None and the service's error is raised.
TryEncoding ==
    /\ raw_pc = "decoding"
    /\ LET d == Decode(encodings[raw_i], raw_bytes) IN
       IF d.ok
       THEN /\ raw_content' = [ok |-> TRUE, encoding |-> encodings[raw_i], text |-> d.text]
            /\ raw_pc' = "decoded"
            /\ UNCHANGED <<raw_i, raw_result>>
       ELSE IF raw_i < Len(encodings)
       THEN /\ raw_i' = raw_i + 1
            /\ UNCHANGED <<raw_pc, raw_content, raw_result>>
       ELSE /\ raw_pc' = "done"
            /\ raw_result' = [kind |-> ServiceError(raw_service), text |-> <<>>]
            /\ UNCHANGED <<raw_i, raw_content>>
    /\ UNCHANGED <<raw_service, raw_bytes>>
    /\ UNCHANGED <<san_vars, ext_vars, api_vars, service_vars>>

\* txt_service.py 49-57, markdown_service.py 53-68: cleaned_text = content.strip()
Clean ==
    /\ raw_pc = "decoded"
    /\ raw_result' = [kind |-> "ok", text |-> Strip(raw_content.text)]
    /\ raw_pc' = "done"
    /\ UNCHANGED <<raw_service, raw_bytes, raw_i, raw_content>>
    /\ UNCHANGED <<san_vars, ext_vars, api_vars, service_vars>>

NextRaw == TryEncoding \/ Clean

SpecRaw == InitRaw /\ [][NextRaw]_vars

(***************************************************************************)
(* SpecText: both sanitizers on the same text: every text of at most       *)
(* MaxLen characters and texts around the two quote patterns.              *)
(***************************************************************************)
TextAlphabet ==
    {NUL, TAB, LF, CR, SP, DQ, BS, DEL, Letter(1), EN_DASH, EM_DASH, ELLIPSIS}

\* a<key of QUOTE_MAPPINGS>b  and  "<pattern of step 4>...  (with a dot, a
\* hyphen and an ellipsis glyph around it)
PatternTexts ==
    { <<Letter(1)>> \o QUOTE_MAPPINGS[2][1] \o <<Letter(2)>>,
      <<DOT, HYPHEN>> \o QuotePattern \o <<ELLIPSIS>> }

IsContent(t) ==
    \/ \E n \in 0..MaxLen : t \in [1..n -> TextAlphabet]
    \/ t \in PatternTexts

InitText ==
    /\ ip_pc = "input"
    /\ IsContent(ip_content)
    /\ ip_sanitized = <<>>
    /\ ip_compat = <<>>
    /\ SanIdle
    /\ ExtIdle
    /\ ApiIdle
    /\ RawIdle
    /\ DsIdle
    /\ CiIdle
    /\ CcIdle

\* InputProcessingService.sanitize_text(content)
SanitizeText ==
    /\ ip_pc = "input"
    /\ ip_sanitized' = sanitize_text(ip_content)
    /\ ip_pc' = "sanitized"
    /\ UNCHANGED <<ip_content, ip_compat>>
    /\ UNCHANGED <<san_vars, ext_vars, api_vars, raw_vars>>
    /\ UNCHANGED <<ds_vars, ci_vars, cc_vars>>

\* DocxParser._make_json_compatible(content)
MakeJsonCompatible ==
    /\ ip_pc = "sanitized"
    /\ ip_compat' = make_json_compatible(ip_content)
    /\ ip_pc' = "done"
    /\ UNCHANGED <<ip_content, ip_sanitized>>
    /\ UNCHANGED <<san_vars, ext_vars, api_vars, raw_vars>>
    /\ UNCHANGED <<ds_vars, ci_vars, cc_vars>>

NextText == SanitizeText \/ MakeJsonCompatible

SpecText == InitText /\ [][NextText]_vars


(***************************************************************************)
(* SpecDocx: DocxService.extract_text on bounded document models.          *)
(***************************************************************************)
\* Paragraphs: "a", a blank one, and " b" (a text with a leading space).
ServiceParagraphs ==
    {Paragraph(<<Letter(1)>>, FALSE, <<>>), Paragraph(BlankText, FALSE, <<>>),
     Paragraph(<<SP, Letter(2)>>, FALSE, <<>>)}

\* Rows of two cells: one blank cell, both cells blank, no blank cell.
ServiceRows ==
    << << <<SP, Letter(4)>>, <<>> >>,
       << <<>>, BlankText >>,
       << <<Letter(5)>>, <<Letter(6), SP>> >> >>

\* Tables: one table for each single row, and one of MaxRows rows.
ServiceTables ==
    {Table(<<ServiceRows[k]>>) : k \in 1..Len(ServiceRows)} \cup
    {Table([r \in 1..MaxRows |-> ServiceRows[((r - 1) % Len(ServiceRows)) + 1]])}

ServiceBlocks == ServiceParagraphs \cup ServiceTables

\* The argument is None, an empty buffer, a buffer that is no document, or
\* the bytes of a document of at most MaxBlocks blocks.
IsServiceContent(fc) ==
    \/ \E k \in {"None", "empty", "corrupt"} : fc = [kind |-> k, doc |-> EmptyDoc]
    \/ \E n \in 0..MaxBlocks : \E b \in [1..n -> ServiceBlocks] :
          \E ps \in Orders(BlocksTagged(b, "p")), ts \in Orders(BlocksTagged(b, "tbl")) :
             fc = [kind |-> "docx", doc |-> [body |-> b, paragraphs |-> ps, tables |-> ts]]

InitDocx ==
    /\ ds_pc = "start"
    /\ IsServiceContent(ds_content)
    /\ ds_doc = EmptyDoc
    /\ ds_parts = <<>>
    /\ ds_result = NoServiceResult
    /\ SanIdle
    /\ ExtIdle
    /\ ApiIdle
    /\ RawIdle
    /\ IpIdle
    /\ CiIdle
    /\ CcIdle

\* lines 34-37 and 67-71: len(file_content) or docx.Document raises; the
\* exception is wrapped in DocxServiceError
ServiceFailure ==
    /\ ds_pc = "start"
    /\ ds_content.kind # "docx"
    /\ ds_result' = ServiceResult("DocxServiceError", <<>>)
    /\ ds_pc' = "done"
    /\ UNCHANGED <<ds_content, ds_doc, ds_parts>>
    /\ UNCHANGED <<san_vars, ext_vars, api_vars, raw_vars>>
    /\ UNCHANGED <<ip_vars, ci_vars, cc_vars>>

\* line 37: doc = docx.Document(io.BytesIO(file_content))
ServiceLoad ==
    /\ ds_pc = "start"
    /\ ds_content.kind = "docx"
    /\ ds_doc' = ds_content.doc
    /\ ds_pc' = "loaded"
    /\ UNCHANGED <<ds_content, ds_parts, ds_result>>
    /\ UNCHANGED <<san_vars, ext_vars, api_vars, raw_vars>>
    /\ UNCHANGED <<ip_vars, ci_vars, cc_vars>>

\* lines 41-45: the loop over doc.paragraphs
ServiceReadParagraphs ==
    /\ ds_pc = "loaded"
    /\ ds_parts' = ServiceParagraphParts(DocParagraphs(ds_doc))
    /\ ds_pc' = "paragraphs"
    /\ UNCHANGED <<ds_content, ds_doc, ds_result>>
    /\ UNCHANGED <<san_vars, ext_vars, api_vars, raw_vars>>
    /\ UNCHANGED <<ip_vars, ci_vars, cc_vars>>

\* A variant that puts the table rows before the paragraphs.
ServiceReadTables_rows_first ==
    /\ ds_pc = "paragraphs"
    /\ ds_parts' = ServiceTableParts(DocTables(ds_doc)) \o ds_parts
    /\ ds_pc' = "tables"
    /\ UNCHANGED <<ds_content, ds_doc, ds_result>>
    /\ UNCHANGED <<san_vars, ext_vars, api_vars, raw_vars>>
    /\ UNCHANGED <<ip_vars, ci_vars, cc_vars>>

\* lines 48-55: the loop over doc.tables
ServiceReadTables ==
    /\ ds_pc = "paragraphs"
    /\ ds_parts' = ds_parts \o ServiceTableParts(DocTables(ds_doc))
    /\ ds_pc' = "tables"
    /\ UNCHANGED <<ds_content, ds_doc, ds_result>>
    /\ UNCHANGED <<san_vars, ext_vars, api_vars, raw_vars>>
    /\ UNCHANGED <<ip_vars, ci_vars, cc_vars>>

\* lines 58-65: extracted_text = "\n".join(text_parts)
ServiceJoin ==
    /\ ds_pc = "tables"
    /\ ds_result' = ServiceResult("ok", Join(<<LF>>, ds_parts))
    /\ ds_pc' = "done"
    /\ UNCHANGED <<ds_content, ds_doc, ds_parts>>
    /\ UNCHANGED <<san_vars, ext_vars, api_vars, raw_vars>>
    /\ UNCHANGED <<ip_vars, ci_vars, cc_vars>>

NextDocx ==
    ServiceFailure \/ ServiceLoad \/ ServiceReadParagraphs \/ ServiceReadTables \/ ServiceJoin

SpecDocx == InitDocx /\ [][NextDocx]_vars


(***************************************************************************)
(* The customer-intent endpoint (ai_customer_intent_router.py) and the     *)
(* services it calls.  An exception is a record with its class.            *)
(***************************************************************************)
Returns(value) == [kind |-> "ok", value |-> value]

Raises(class) == [kind |-> class, value |-> <<>>]

\* The names of the uploaded files and os.path.splitext(filename.lower())[1]
\* of each.
Filenames ==
    {"", "notes.md", "Notes.MARKDOWN", "report.docx", "old.doc", "a.txt", "scan.pdf", "README"}

splitext(filename) ==
    CASE filename = "notes.md" -> ".md"
      [] filename = "Notes.MARKDOWN" -> ".markdown"
      [] filename = "report.docx" -> ".docx"
      [] filename = "old.doc" -> ".doc"
      [] filename = "a.txt" -> ".txt"
      [] filename = "scan.pdf" -> ".pdf"
      [] OTHER -> ""

FILE_EXTENSIONS_DICT ==
    [ext \in {".md", ".markdown", ".docx", ".doc", ".txt"} |->
        IF ext \in {".md", ".markdown"} THEN "markdown"
        ELSE IF ext \in {".docx", ".doc"} THEN "docx"
        ELSE "text"]

\* FileHandlerRoutingService.get_file_extension
get_file_extension(filename) ==
    IF filename = "" THEN Raises("FileHandlerRoutingError") ELSE Returns(splitext(filename))

\* FileHandlerRoutingService.get_file_type
get_file_type(filename) ==
    LET ext == get_file_extension(filename) IN
    IF ext.kind # "ok" THEN ext
    ELSE IF ext.value \notin DOMAIN FILE_EXTENSIONS_DICT THEN Raises("FileHandlerRoutingError")
    ELSE Returns(FILE_EXTENSIONS_DICT[ext.value])

\* A variant that takes a file of an unknown extension for a text file.
validate_file_type_default_text(filename) ==
    LET file_type == get_file_type(filename)
    IN  IF filename = "" THEN Raises("FileHandlerRoutingError")
        ELSE IF file_type.kind # "ok" THEN Returns("text")
        ELSE file_type

\* FileHandlerRoutingService.validate_file_type with allowed_types = None:
\* every type of the dictionary is allowed; any exception is raised again as
\* FileHandlerRoutingError.
validate_file_type(filename) ==
    LET allowed_types == {FILE_EXTENSIONS_DICT[e] : e \in DOMAIN FILE_EXTENSIONS_DICT}
        file_type == get_file_type(filename)
    IN  IF file_type.kind # "ok" THEN Raises("FileHandlerRoutingError")
        ELSE IF file_type.value \notin allowed_types THEN Raises("FileHandlerRoutingError")
        ELSE file_type

\* TxtService.extract_text / MarkdownService.extract_text as one call: the
\* first encoding that decodes the buffer, then strip().
RECURSIVE FirstDecodable(_, _)
FirstDecodable(buffer, i) ==
    IF i > Len(encodings) THEN NoContent
    ELSE LET d == Decode(encodings[i], buffer) IN
         IF d.ok THEN [ok |-> TRUE, encoding |-> encodings[i], text |-> d.text]
         ELSE FirstDecodable(buffer, i + 1)

RawService_extract_text(service, buffer) ==
    LET content == FirstDecodable(buffer, 1) IN
    IF content.ok THEN Returns(Strip(content.text)) ELSE Raises(ServiceError(service))

\* extract_file_content, lines 64-72: the extractor of the file type
ExtractByType(file_type, content) ==
    IF file_type = "markdown" THEN RawService_extract_text("markdown", content.bytes)
    ELSE IF file_type = "docx"
    THEN LET r == DocxService_extract_text([kind |-> content.kind, doc |-> content.doc])
         IN  IF r.kind = "ok" THEN Returns(r.text) ELSE Raises(r.kind)
    ELSE IF file_type = "text" THEN RawService_extract_text("txt", content.bytes)
    ELSE Raises("CustomerIntentRouterError")

\* extract_file_content, lines 56-81.  Both except clauses raise
\* CustomerIntentRouterError.
extract_file_content(file) ==
    LET file_type == validate_file_type(file.filename)
        extracted == IF file_type.kind # "ok" THEN file_type
                     ELSE IF file.content.kind = "unreadable" THEN Raises("OSError")
                     ELSE ExtractByType(file_type.value, file.content)
    IN  IF extracted.kind = "ok" THEN extracted
        ELSE IF extracted.kind = "FileHandlerRoutingError" THEN Raises("CustomerIntentRouterError")
        ELSE Raises("CustomerIntentRouterError")

\* InputProcessingService.validate_text
validate_text(content) ==
    IF Strip(content) = <<>> THEN Raises("InputProcessingError") ELSE Returns(<<>>)

\* InputProcessingService.process_text
InputProcessingService_process_text(content) ==
    IF validate_text(content).kind # "ok" THEN Raises("InputProcessingError")
    ELSE Returns(sanitize_text(content))

\* process_text of the router, lines 97-114: every except clause raises
\* CustomerIntentRouterError.
process_text(document_text) ==
    LET processed == IF document_text = <<>> THEN Raises("AssertionError")
                     ELSE InputProcessingService_process_text(document_text)
        checked == IF processed.kind = "ok" /\ processed.value = <<>>
                   THEN Raises("AssertionError") ELSE processed
    IN  IF checked.kind = "ok" THEN checked ELSE Raises("CustomerIntentRouterError")

\* settings.max_tokens when model_config carries it, and the fallback of
\* model_config.get("max_tokens", 4096) when it does not.
MAX_TOKENS == 4000

FALLBACK_MAX_TOKENS == 4096

ModelConfigs == {[max_tokens |-> <<>>], [max_tokens |-> <<MAX_TOKENS>>]}

NoTokenInfo == [token_count |-> 0, model_limit |-> 0, tokens_remaining |-> 0]

\* What tiktoken answers: it fails, or it counts the tokens of the text.
TokenizerAnswers == {[ok |-> FALSE, n |-> 0]} \cup {[ok |-> TRUE, n |-> c] : c \in TokenCounts}

\* TokenizerService.validate_tokens, lines 32-78
validate_tokens(model_config, answer) ==
    IF ~answer.ok THEN Raises("TokenizerError")
    ELSE LET token_count == answer.n
             model_limit == IF model_config.max_tokens # <<>> THEN model_config.max_tokens[1]
                            ELSE FALLBACK_MAX_TOKENS
         IN  Returns([token_count |-> token_count, model_limit |-> model_limit,
                      tokens_remaining |-> model_limit - token_count])

\* validate_token_count, lines 130-164: token_info is returned as it came;
\* both except clauses raise CustomerIntentRouterError.
validate_token_count(model_config, answer) ==
    LET token_info == validate_tokens(model_config, answer) IN
    IF token_info.kind = "ok" THEN token_info ELSE Raises("CustomerIntentRouterError")

\* What AIService.generate_completion does: it raises OpenAIServiceError, or
\* it returns a completion, whose text may be None and whose usage numbers
\* may be None.
AiAnswers == {"OpenAIServiceError", "completion", "no_text", "no_usage"}

\* generate_intent, lines 180-206, before the except clauses: the result and
\* whether ai_service.generate_completion was called.
GenerateIntentBody(processed_text, ai) ==
    IF processed_text = <<>> THEN [res |-> Raises("AssertionError"), called |-> FALSE]
    ELSE IF Strip(processed_text) = <<>> THEN [res |-> Raises("ValueError"), called |-> FALSE]
    ELSE IF ai = "OpenAIServiceError" THEN [res |-> Raises("OpenAIServiceError"), called |-> TRUE]
    ELSE IF ai = "no_text" THEN [res |-> Raises("AttributeError"), called |-> TRUE]
    ELSE [res |-> Returns(ai), called |-> TRUE]

\* A variant whose except clauses let OpenAIServiceError pass.
CatchGenerateIntent_passing(raised) ==
    IF raised.kind = "OpenAIServiceError" THEN raised
    ELSE Raises("CustomerIntentRouterError")

\* generate_intent, lines 208-217: the except clauses
CatchGenerateIntent(raised) ==
    IF raised.kind = "OpenAIServiceError" THEN Raises("CustomerIntentRouterError")
    ELSE IF raised.kind = "ValueError" THEN Raises("CustomerIntentRouterError")
    ELSE IF raised.kind = "AssertionError" THEN Raises("CustomerIntentRouterError")
    ELSE IF raised.kind = "CustomerIntentRouterError" THEN raised
    ELSE Raises("CustomerIntentRouterError")

generate_intent(processed_text, ai) ==
    LET body == GenerateIntentBody(processed_text, ai) IN
    [res |-> IF body.res.kind = "ok" THEN body.res ELSE CatchGenerateIntent(body.res),
     called |-> body.called]

\* format_response, lines 232-262: CustomerIntentResponse(...) rejects usage
\* numbers that are None; both except clauses raise CustomerIntentRouterError.
format_response(intent_result, token_info, processed_text) ==
    IF intent_result = "no_usage" THEN Raises("CustomerIntentRouterError")
    ELSE Returns([token_limit |-> token_info.model_limit, token_count |-> token_info.token_count,
                  remaining_tokens |-> token_info.tokens_remaining,
                  text_used |-> processed_text])

\* generate_customer_intent, lines 304-325: the except clauses
HandleException(raised) ==
    IF raised.kind = "CustomerIntentRouterError" THEN 400
    ELSE IF raised.kind = "OpenAIServiceError" THEN 503
    ELSE 500

(***************************************************************************)
(* SpecIntent: one request to POST /customer-intent                        *)
(* (generate_customer_intent).                                             *)
(***************************************************************************)
\* The bytes of the uploaded text files: an empty file, a blank, a NUL, "a",
\* and a blank between two NULs.
IntentBuffers == {<<>>, <<SP>>, <<NUL>>, <<Letter(1)>>, <<NUL, SP, NUL>>}

\* The file of the request: its name and what reading it gives (an error,
\* the bytes of a text, or the bytes of a document of at most MaxUploadBlocks
\* blocks).  A document is uploaded under a name that is no text name.
IsIntentUpload(file) ==
    \E name \in Filenames :
       \/ file = [filename |-> name,
                  content |-> [kind |-> "unreadable", bytes |-> <<>>, doc |-> EmptyDoc]]
       \/ \E b \in IntentBuffers :
             file = [filename |-> name,
                     content |-> [kind |-> "bytes", bytes |-> b, doc |-> EmptyDoc]]
       \/ /\ splitext(name) \notin {".md", ".markdown", ".txt"}
          /\ \E n \in 0..MaxUploadBlocks : \E b \in [1..n -> ServiceBlocks] :
                file = [filename |-> name,
                        content |-> [kind |-> "docx", bytes |-> <<>>,
                                     doc |-> [body |-> b, paragraphs |-> BlocksTagged(b, "p"),
                                              tables |-> BlocksTagged(b, "tbl")]]]

NoException == [kind |-> "none", value |-> <<>>]

NoIntentResponse == [status |-> 0, body |-> <<>>]

InitIntent ==
    /\ ci_pc = "received"
    /\ IsIntentUpload(ci_file)
    /\ ci_model_config \in ModelConfigs
    /\ ci_document_text = <<>>
    /\ ci_processed_text = <<>>
    /\ ci_token_info = NoTokenInfo
    /\ ci_intent_result = "none"
    /\ ci_raised = NoException
    /\ ci_response = NoIntentResponse
    /\ ci_ai_calls = 0
    /\ SanIdle
    /\ ExtIdle
    /\ ApiIdle
    /\ RawIdle
    /\ IpIdle
    /\ DsIdle
    /\ CcIdle

\* line 288: document_text = await extract_file_content(file, req_logger)
ExtractFileContent ==
    /\ ci_pc = "received"
    /\ LET r == extract_file_content(ci_file) IN
       IF r.kind = "ok"
       THEN /\ ci_document_text' = r.value
            /\ ci_pc' = "extracted"
            /\ UNCHANGED ci_raised
       ELSE /\ ci_raised' = r
            /\ ci_pc' = "raised"
            /\ UNCHANGED ci_document_text
    /\ UNCHANGED <<ci_file, ci_model_config, ci_processed_text, ci_token_info,
                   ci_intent_result, ci_response, ci_ai_calls>>
    /\ UNCHANGED <<san_vars, ext_vars, api_vars, raw_vars>>
    /\ UNCHANGED <<ip_vars, ds_vars, cc_vars>>

\* line 291: processed_text = process_text(document_text, req_logger)
ProcessText ==
    /\ ci_pc = "extracted"
    /\ LET r == process_text(ci_document_text) IN
       IF r.kind = "ok"
       THEN /\ ci_processed_text' = r.value
            /\ ci_pc' = "processed"
            /\ UNCHANGED ci_raised
       ELSE /\ ci_raised' = r
            /\ ci_pc' = "raised"
            /\ UNCHANGED ci_processed_text
    /\ UNCHANGED <<ci_file, ci_model_config, ci_document_text, ci_token_info,
                   ci_intent_result, ci_response, ci_ai_calls>>
    /\ UNCHANGED <<san_vars, ext_vars, api_vars, raw_vars>>
    /\ UNCHANGED <<ip_vars, ds_vars, cc_vars>>

\* line 294: token_info = validate_token_count(processed_text, req_logger)
ValidateTokenCount ==
    /\ ci_pc = "processed"
    /\ \E answer \in TokenizerAnswers :
          LET r == validate_token_count(ci_model_config, answer) IN
          IF r.kind = "ok"
          THEN /\ ci_token_info' = r.value
               /\ ci_pc' = "validated"
               /\ UNCHANGED ci_raised
          ELSE /\ ci_raised' = r
               /\ ci_pc' = "raised"
               /\ UNCHANGED ci_token_info
    /\ UNCHANGED <<ci_file, ci_model_config, ci_document_text, ci_processed_text,
                   ci_intent_result, ci_response, ci_ai_calls>>
    /\ UNCHANGED <<san_vars, ext_vars, api_vars, raw_vars>>
    /\ UNCHANGED <<ip_vars, ds_vars, cc_vars>>

\* line 297: intent_result = await generate_intent(processed_text, req_logger)
GenerateIntent ==
    /\ ci_pc = "validated"
    /\ \E ai \in AiAnswers :
          LET r == generate_intent(ci_processed_text, ai) IN
          /\ ci_ai_calls' = IF r.called THEN ci_ai_calls + 1 ELSE ci_ai_calls
          /\ IF r.res.kind = "ok"
             THEN /\ ci_intent_result' = r.res.value
                  /\ ci_pc' = "generated"
                  /\ UNCHANGED ci_raised
             ELSE /\ ci_raised' = r.res
                  /\ ci_pc' = "raised"
                  /\ UNCHANGED ci_intent_result
    /\ UNCHANGED <<ci_file, ci_model_config, ci_document_text, ci_processed_text,
                   ci_token_info, ci_response>>
    /\ UNCHANGED <<san_vars, ext_vars, api_vars, raw_vars>>
    /\ UNCHANGED <<ip_vars, ds_vars, cc_vars>>

\* lines 300-302: response = format_response(...); return response
FormatResponse ==
    /\ ci_pc = "generated"
    /\ LET r == format_response(ci_intent_result, ci_token_info, ci_processed_text) IN
       IF r.kind = "ok"
       THEN /\ ci_response' = [status |-> 200, body |-> r.value]
            /\ ci_pc' = "answered"
            /\ UNCHANGED ci_raised
       ELSE /\ ci_raised' = r
            /\ ci_pc' = "raised"
            /\ UNCHANGED ci_response
    /\ UNCHANGED <<ci_file, ci_model_config, ci_document_text, ci_processed_text,
                   ci_token_info, ci_intent_result, ci_ai_calls>>
    /\ UNCHANGED <<san_vars, ext_vars, api_vars, raw_vars>>
    /\ UNCHANGED <<ip_vars, ds_vars, cc_vars>>

\* lines 304-325: the except clauses of the endpoint raise HTTPException
AnswerError ==
    /\ ci_pc = "raised"
    /\ ci_response' = [status |-> HandleException(ci_raised), body |-> <<>>]
    /\ ci_pc' = "answered"
    /\ UNCHANGED <<ci_file, ci_model_config, ci_document_text, ci_processed_text,
                   ci_token_info, ci_intent_result, ci_raised, ci_ai_calls>>
    /\ UNCHANGED <<san_vars, ext_vars, api_vars, raw_vars>>
    /\ UNCHANGED <<ip_vars, ds_vars, cc_vars>>

NextIntent ==
    \/ ExtractFileContent
    \/ ProcessText
    \/ ValidateTokenCount
    \/ GenerateIntent
    \/ FormatResponse
    \/ AnswerError

SpecIntent == InitIntent /\ [][NextIntent]_vars


(***************************************************************************)
(* SpecCalls: two calls of DocxParser.extract_text whose steps interleave. *)
(* Every name the method assigns (doc, text_parts, text, token_result) is  *)
(* a local of the call's frame; the method is a staticmethod and touches   *)
(* no attribute of the class.  What the calls have in common is the        *)
(* process: the environment OpenAISettings() reads, which no step writes,  *)
(* and the standard output the warning of line 200 is printed to, which no *)
(* step reads.                                                             *)
(***************************************************************************)
MaxCallBlocks == 1

CallBlocks == {Paragraph(<<Letter(1)>>, FALSE, <<>>), NestedTable(<<RowAt(1)>>)}

CallEnvironments == {e \in Environments : e.ok => e.default_model = "gpt-4o"}

CallContents ==
    {[kind |-> k, doc |-> EmptyDoc] : k \in {"None", "corrupt"}} \cup
    UNION {{[kind |-> "docx",
             doc |-> [body |-> b, paragraphs |-> BlocksTagged(b, "p"),
                      tables |-> BlocksTagged(b, "tbl")]] : b \in [1..n -> CallBlocks]}
           : n \in 0..MaxCallBlocks}

InitCalls ==
    /\ cc_pc = [i \in Calls |-> "start"]
    /\ cc_content \in [Calls -> CallContents]
    /\ cc_content[1] # cc_content[2]
    /\ cc_doc = [i \in Calls |-> EmptyDoc]
    /\ cc_text_parts = [i \in Calls |-> <<>>]
    /\ cc_text = [i \in Calls |-> <<>>]
    /\ cc_enc = [i \in Calls |-> NoAnswer]
    /\ cc_outcome = [i \in Calls |-> NoApiResult]
    /\ cc_env \in CallEnvironments
    /\ cc_stdout = <<>>
    /\ SanIdle
    /\ ExtIdle
    /\ ApiIdle
    /\ RawIdle
    /\ IpIdle
    /\ DsIdle
    /\ CiIdle

\* lines 85-87 of call i: one of the input assertions fails
CallReject(i) ==
    /\ cc_pc[i] = "start"
    /\ cc_content[i].kind = "None"
    /\ cc_outcome' = [cc_outcome EXCEPT
                         ![i] = RaiseWith("AssertionError", "File content cannot be None")]
    /\ cc_pc' = [cc_pc EXCEPT ![i] = "done"]
    /\ UNCHANGED <<cc_content, cc_doc, cc_text_parts, cc_text, cc_enc, cc_env, cc_stdout>>
    /\ UNCHANGED <<san_vars, ext_vars, api_vars, raw_vars, ip_vars, ds_vars, ci_vars>>

\* lines 89-91 and 213-214 of call i: docx.Document raises, the last except
\* clause wraps the exception
CallParseFailure(i) ==
    /\ cc_pc[i] = "start"
    /\ cc_content[i].kind = "corrupt"
    /\ cc_outcome' = [cc_outcome EXCEPT
                         ![i] = RaiseWith("DocxParserError", "Error extracting text from document")]
    /\ cc_pc' = [cc_pc EXCEPT ![i] = "done"]
    /\ UNCHANGED <<cc_content, cc_doc, cc_text_parts, cc_text, cc_enc, cc_env, cc_stdout>>
    /\ UNCHANGED <<san_vars, ext_vars, api_vars, raw_vars, ip_vars, ds_vars, ci_vars>>

\* line 91 of call i: doc = docx.Document(io.BytesIO(file_content))
CallLoad(i) ==
    /\ cc_pc[i] = "start"
    /\ cc_content[i].kind = "docx"
    /\ cc_doc' = [cc_doc EXCEPT ![i] = cc_content[i].doc]
    /\ cc_pc' = [cc_pc EXCEPT ![i] = "loaded"]
    /\ UNCHANGED <<cc_content, cc_text_parts, cc_text, cc_enc, cc_outcome, cc_env, cc_stdout>>
    /\ UNCHANGED <<san_vars, ext_vars, api_vars, raw_vars, ip_vars, ds_vars, ci_vars>>

\* A variant in which text_parts is one list of the class: the fragments of
\* a call are appended to what the other call has put there.
CallWalk_shared_parts(i) ==
    /\ cc_pc[i] = "loaded"
    /\ cc_text_parts' = [cc_text_parts EXCEPT
                            ![i] = cc_text_parts[CHOOSE j \in Calls : j # i]
                                   \o WalkBody(cc_doc[i])]
    /\ cc_pc' = [cc_pc EXCEPT ![i] = "walked"]
    /\ UNCHANGED <<cc_content, cc_doc, cc_text, cc_enc, cc_outcome, cc_env, cc_stdout>>
    /\ UNCHANGED <<san_vars, ext_vars, api_vars, raw_vars, ip_vars, ds_vars, ci_vars>>

\* lines 94-151 of call i: text_parts = [] and the loop over the body
CallWalk(i) ==
    /\ cc_pc[i] = "loaded"
    /\ cc_text_parts' = [cc_text_parts EXCEPT ![i] = WalkBody(cc_doc[i])]
    /\ cc_pc' = [cc_pc EXCEPT ![i] = "walked"]
    /\ UNCHANGED <<cc_content, cc_doc, cc_text, cc_enc, cc_outcome, cc_env, cc_stdout>>
    /\ UNCHANGED <<san_vars, ext_vars, api_vars, raw_vars, ip_vars, ds_vars, ci_vars>>

\* lines 153-177 of call i: join, collapse, sanitize, self-check
CallSanitize(i) ==
    /\ cc_pc[i] = "walked"
    /\ LET t == make_json_compatible(Assemble(cc_text_parts[i])) IN
       /\ cc_text' = [cc_text EXCEPT ![i] = t]
       /\ IF SelfCheck(t)
          THEN /\ cc_pc' = [cc_pc EXCEPT ![i] = "sanitized"]
               /\ cc_outcome' = cc_outcome
          ELSE /\ cc_pc' = [cc_pc EXCEPT ![i] = "done"]
               /\ cc_outcome' = [cc_outcome EXCEPT
                     ![i] = RaiseWith("DocxParserError", "Generated text is not JSON-compatible")]
    /\ UNCHANGED <<cc_content, cc_doc, cc_text_parts, cc_enc, cc_env, cc_stdout>>
    /\ UNCHANGED <<san_vars, ext_vars, api_vars, raw_vars, ip_vars, ds_vars, ci_vars>>

\* lines 179-206 of call i: the token step, the warning of line 200 and the
\* return
CallTokenGate(i) ==
    /\ cc_pc[i] = "sanitized"
    /\ \E enc \in EncodeAnswers(cc_text[i]) :
          LET r == TokenCheck(cc_env, enc) IN
          /\ cc_enc' = [cc_enc EXCEPT ![i] = enc]
          /\ cc_stdout' = IF r.status # "ok" THEN Append(cc_stdout, i) ELSE cc_stdout
          /\ cc_outcome' = [cc_outcome EXCEPT ![i] =
                IF GateRaises(r)
                THEN [kind |-> "TokenLimitError", message |-> "Document exceeds token limit",
                      text |-> <<>>, token_count |-> r.token_count,
                      limit |-> DOCUMENT_TOKEN_LIMIT]
                ELSE IF ~OutputValid(cc_text[i])
                THEN RaiseWith("AssertionError", "Result must be a string")
                ELSE [kind |-> "ok", message |-> "", text |-> cc_text[i],
                      token_count |-> 0, limit |-> 0]]
    /\ cc_pc' = [cc_pc EXCEPT ![i] = "done"]
    /\ UNCHANGED <<cc_content, cc_doc, cc_text_parts, cc_text, cc_env>>
    /\ UNCHANGED <<san_vars, ext_vars, api_vars, raw_vars, ip_vars, ds_vars, ci_vars>>

\* Either call takes its next step.
NextCalls ==
    \/ \E i \in Calls : CallReject(i)
    \/ \E i \in Calls : CallParseFailure(i)
    \/ \E i \in Calls : CallLoad(i)
    \/ \E i \in Calls : CallWalk(i)
    \/ \E i \in Calls : CallSanitize(i)
    \/ \E i \in Calls : CallTokenGate(i)

SpecCalls == InitCalls /\ [][NextCalls]_vars


(***************************************************************************)
(* Claims about the sanitizer (checked under SpecSan).                     *)
(***************************************************************************)
SanDone == san_pc = "checked"

\* C1: dual round trip.  For the sanitized output T, parsing the JSON
\* serialization of {x: T} gives back T, parsing the inner document of
\* stringify({outer: stringify({p: T})}) gives back T, and the self-check of
\* extract_text does not fail on T.
C1_DualRoundTrip ==
    SanDone =>
        /\ san_single.ok /\ san_single.val = san_out
        /\ san_double.ok /\ san_double.val = san_out
        /\ san_selfcheck

\* A sanitized text with a newline, an escaped quote and a doubled backslash
\* came back unchanged from both nesting depths.
C1_Witness ==
    /\ SanDone
    /\ {LF, DQ, BS} \subseteq Range(san_out)
    /\ san_single.val = san_out
    /\ san_double.val = san_out
    /\ san_selfcheck

\* C2: JSON-literal safety.  The sanitized output T, placed verbatim between
\* two double quotes, is a well-formed JSON string literal, and decoding the
\* literal gives the text as it stood after stages 1-5.
C2_VerbatimLiteralSafe ==
    san_pc \in {"sanitized", "resanitized", "checked"} =>
        LET lit == VerbatimLiteral(san_out)
        IN  lit.ok /\ lit.rest = <<>> /\ lit.val = Stage5(san_text)

Count(s, chars) == Cardinality({i \in 1..Len(s) : s[i] \in chars})

\* C14: quote normalization.  No typographic quotation mark remains in the
\* sanitized output; each typographic double quote of the input has become
\* an ASCII double quote and each typographic single quote an apostrophe.
C14_QuotesNormalized ==
    SanDone =>
        /\ Range(san_out) \cap (TypographicSingle \cup TypographicDouble) = {}
        /\ Count(san_out, {DQ}) = Count(san_text, {DQ} \cup TypographicDouble)
        /\ Count(san_out, {APOS}) >= Count(san_text, TypographicSingle)

\* The number of backslashes that stand immediately before position i.
BackslashesBefore(s, i) ==
    Cardinality({k \in 1..(i - 1) : \A j \in (i - k)..(i - 1) : s[j] = BS})

EscapedChar(c) == IF c = BS THEN <<BS, BS>> ELSE IF c = DQ THEN <<BS, DQ>> ELSE <<c>>

\* C15: escaping order.  Each backslash of the stage-5 text yields exactly
\* two backslashes and each ASCII double quote a backslash and the quote;
\* every double quote of the output follows an odd number of backslashes;
\* Hello, "World" yields Hello, \"World\".
C15_EscapingOrder ==
    SanDone =>
        LET staged == Stage5(san_text) IN
        /\ san_out = Concat([i \in 1..Len(staged) |-> EscapedChar(staged[i])])
        /\ \A i \in 1..Len(san_out) :
              san_out[i] = DQ => BackslashesBefore(san_out, i) % 2 = 1
        /\ san_text = HelloWorld =>
              san_out = <<72, 101, 108, 108, 111, 44, 32, 92, 34,
                          87, 111, 114, 108, 100, 92, 34>>

\* Hello, "World" was sanitized to Hello, \"World\".
C15_Witness ==
    /\ SanDone
    /\ san_text = HelloWorld
    /\ san_out = <<72, 101, 108, 108, 111, 44, 32, BS, DQ, 87, 111, 114, 108, 100, BS, DQ>>

(***************************************************************************)
(* Claims about extract_text (checked under Spec).                         *)
(***************************************************************************)
Returned == method = "extract_text" /\ pc = "done" /\ outcome.kind = "ok"

IsBlankParagraph(b) == b.tag = "p" /\ Strip(b.text) = <<>>

\* The fragments of block i of a body, read off the block itself.
BlockParts(body, i) ==
    IF body[i].tag = "p"
    THEN ParagraphParts([element |-> <<i>>, text |-> body[i].text],
                        Element("p", <<i>>, body[i].numPr, body[i].ilvl))
    ELSE TableParts([element |-> <<i>>, rows |-> body[i].rows])

PlainA == Paragraph(<<Letter(1)>>, FALSE, <<>>)

ListA(level) == Paragraph(<<Letter(1)>>, TRUE, <<level>>)

TwoRows == Table(<<RowAt(1), RowAt(2)>>)

\* C4: order preservation.  The fragment list is the concatenation, in body
\* order, of each block's fragments; for the blocks [P1, Table1 with rows r1
\* and r2, P2] it is exactly [P1, r1, r2, P2].
C4_OrderPreserved ==
    pc = "walked" =>
        /\ text_parts = Concat([i \in 1..Len(doc.body) |-> BlockParts(doc.body, i)])
        /\ doc.body = <<PlainA, TwoRows, ListA(2)>> =>
              text_parts = << <<Letter(1)>>, RowText(RowAt(1)), RowText(RowAt(2)),
                              Spaces(4) \o <<BULLET, SP, Letter(1)>> >>

\* The walk of [P1, Table1(r1, r2), P2] has produced "a", "d | ", "e | ", "    • a".
C4_Witness ==
    /\ pc = "walked"
    /\ doc.body = <<PlainA, TwoRows, ListA(2)>>
    /\ text_parts = << <<97>>, <<100, 32, 124, 32>>, <<101, 32, 124, 32>>,
                       <<32, 32, 32, 32, 8226, 32, 97>> >>

BodyOrder(d) ==
    [d EXCEPT !.paragraphs = BlocksTagged(d.body, "p"), !.tables = BlocksTagged(d.body, "tbl")]

\* C5: collection-order independence.  The fragments and the output are those
\* of the document model with the same body whose two collections enumerate
\* their objects in body order.
C5_CollectionOrderIndependent ==
    /\ pc = "walked" => text_parts = WalkBody(BodyOrder(doc))
    /\ pc = "sanitized" => text = make_json_compatible(Assemble(WalkBody(BodyOrder(doc))))
    /\ Returned => outcome.text = text

\* A document whose paragraph collection enumerates the second paragraph
\* first was extracted in body order.
C5_Witness ==
    /\ Returned
    /\ doc.body = <<PlainA, TwoRows, ListA(1)>>
    /\ doc.paragraphs = <<3, 1>>
    /\ text_parts[1] = <<Letter(1)>>
    /\ text_parts[4] = <<SP, SP, BULLET, SP, Letter(1)>>

\* C6: list rendering.  A non-blank list item at level L appears in the
\* returned text as 2*L spaces, the bullet, one space and the paragraph text
\* (here: for the first block of the body, at the start of the text).
C6_ListIndentation ==
    (Returned /\ doc.body # <<>> /\ doc.body[1].tag = "p" /\ doc.body[1].numPr
              /\ ~IsBlankParagraph(doc.body[1]))
        => LET L == IF doc.body[1].ilvl = <<>> THEN 0 ELSE doc.body[1].ilvl[1]
               rendered == Spaces(2 * L) \o <<BULLET, SP>> \o doc.body[1].text
           IN  /\ Len(outcome.text) >= Len(rendered)
               /\ SubSeq(outcome.text, 1, Len(rendered)) = rendered

\* The document model without block i.
WithoutBlock(d, i) ==
    LET Other(j) == j # i
        Shift(js) == [k \in 1..Len(js) |-> IF js[k] > i THEN js[k] - 1 ELSE js[k]]
    IN  [body |-> SubSeq(d.body, 1, i - 1) \o SubSeq(d.body, i + 1, Len(d.body)),
         paragraphs |-> Shift(SelectSeq(d.paragraphs, Other)),
         tables |-> Shift(SelectSeq(d.tables, Other))]

BlankBlocks(d) == {i \in 1..Len(d.body) : IsBlankParagraph(d.body[i])}

\* C7: blank-paragraph skipping.  A paragraph whose text is empty or
\* whitespace-only, list item or not, adds no fragment: fragments and output
\* are those of the document without that paragraph.
C7_BlankParagraphSkipped ==
    /\ pc = "walked" =>
          \A i \in BlankBlocks(doc) : text_parts = WalkBody(WithoutBlock(doc, i))
    /\ pc = "sanitized" =>
          \A i \in BlankBlocks(doc) :
              text = make_json_compatible(Assemble(WalkBody(WithoutBlock(doc, i))))
    /\ Returned => outcome.text = text

\* A whitespace-only list item between two paragraphs left no trace: the
\* text returned is "a", a blank line, "a".
C7_Witness ==
    /\ Returned
    /\ doc.body = <<PlainA, Paragraph(BlankText, TRUE, <<1>>), PlainA>>
    /\ text_parts = << <<Letter(1)>>, <<Letter(1)>> >>
    /\ outcome.text = <<Letter(1), LF, LF, Letter(1)>>

\* C8: a parseable document with zero blocks gives the empty string and no
\* error, whatever the token step obtains.
C8_ZeroBlocks ==
    (method = "extract_text" /\ pc = "done" /\ file_content.kind = "docx"
        /\ file_content.doc.body = <<>>)
        => outcome = [kind |-> "ok", text |-> <<>>, token_count |-> 0, limit |-> 0]

\* The empty document was returned as "" although the tokenizer failed.
C8_Witness ==
    /\ method = "extract_text"
    /\ pc = "done"
    /\ file_content.kind = "docx"
    /\ file_content.doc.body = <<>>
    /\ token_result.status = "TokenServiceError"
    /\ outcome.kind = "ok"
    /\ outcome.text = <<>>

GateDone == pc = "done" /\ token_result # NoTokenResult

C10_CounterFailureNotFatal ==
    GateDone =>
        /\ token_result.status # "ok" => (outcome.kind = "ok" /\ outcome.text = text)
        /\ outcome.kind \in {"ok", "TokenLimitError"}
        /\ outcome.kind = "ok" => outcome.text = text

\* The settings could not be built and a non-empty text was returned.
C10_Witness ==
    /\ GateDone
    /\ token_result.status = "SettingsError"
    /\ outcome.kind = "ok"
    /\ outcome.text = text
    /\ text # <<>>

NothingDone ==
    /\ doc = EmptyDoc
    /\ text_parts = <<>>
    /\ text = <<>>
    /\ token_result = NoTokenResult
    /\ result = NoStructure

\* C11: input validation.  Given None, a value that is not bytes or an empty
\* buffer, extract_text and parse_document end at once with AssertionError:
\* no document model was built, nothing was sanitized, no token was counted,
\* and the error is neither DocxParserError nor TokenLimitError.
C11_InputValidation ==
    file_content.kind \in {"None", "not_bytes", "empty"} =>
        /\ pc \in {"start", "done"}
        /\ NothingDone
        /\ pc = "done" => outcome.kind = "AssertionError"

\* parse_document was given an empty buffer and raised AssertionError.
C11_Witness ==
    /\ method = "parse_document"
    /\ file_content.kind = "empty"
    /\ pc = "done"
    /\ outcome.kind = "AssertionError"
    /\ NothingDone

\* C12: parse error.  For a non-empty buffer that docx.Document cannot parse,
\* both methods end with DocxParserError, and extract_text has sanitized
\* nothing and counted no token.
C12_ParseError ==
    file_content.kind = "corrupt" =>
        /\ pc \in {"start", "done"}
        /\ NothingDone
        /\ pc = "done" => outcome.kind = "DocxParserError"

\* extract_text was given bytes that are no document and raised DocxParserError.
C12_Witness ==
    /\ method = "extract_text"
    /\ file_content.kind = "corrupt"
    /\ pc = "done"
    /\ outcome.kind = "DocxParserError"
    /\ NothingDone

\* The number of fragments block b gives.
NParts(b) == IF b.tag = "tbl" THEN Len(b.rows) ELSE IF IsBlankParagraph(b) THEN 0 ELSE 1

RECURSIVE PartsBefore(_, _)
PartsBefore(body, i) == IF i <= 1 THEN 0 ELSE PartsBefore(body, i - 1) + NParts(body[i - 1])

\* The fields of a fragment: the pieces between the separators " | ".
RECURSIVE Fields(_)
Fields(fragment) ==
    LET sep == <<SP, PIPE, SP>>
        at == {i \in 1..Len(fragment) : MatchAt(fragment, i, sep)}
    IN  IF at = {} THEN <<fragment>>
        ELSE LET i == CHOOSE j \in at : \A k \in at : j <= k
             IN  <<SubSeq(fragment, 1, i - 1)>> \o Fields(DropFirst(fragment, i + 2))

\* C18: table flattening.  Every row of every table of the body gives exactly
\* one fragment, in row order; a row of n cells gives n fields separated by
\* " | ", blank cells included, the k-th field being the trimmed k-th cell.
C18_TableFlattening ==
    pc = "walked" =>
        /\ Len(text_parts) = PartsBefore(doc.body, Len(doc.body) + 1)
        /\ \A i \in 1..Len(doc.body) :
              doc.body[i].tag = "tbl" =>
                 \A r \in 1..Len(doc.body[i].rows) :
                    LET row == doc.body[i].rows[r]
                        fragment == text_parts[PartsBefore(doc.body, i) + r]
                    IN  /\ Len(Fields(fragment)) = Len(row)
                        /\ \A k \in 1..Len(row) : Fields(fragment)[k] = Strip(row[k])

\* A paragraph and a table of two rows, each with a blank second cell, gave
\* "a", "d | " and "e | ".
C18_Witness ==
    /\ pc = "walked"
    /\ doc.body = <<PlainA, TwoRows>>
    /\ text_parts = << <<97>>, <<100, SP, PIPE, SP>>, <<101, SP, PIPE, SP>> >>

HasBlankLines(s) == \E i \in 1..(Len(s) - 2) : s[i] = LF /\ s[i + 1] = LF /\ s[i + 2] = LF

\* C20: blank-line bound.  The text extract_text returns holds no run of
\* three or more newline characters.
C20_BlankLineBound == Returned => ~HasBlankLines(outcome.text)

(***************************************************************************)
(* Claims about the endpoint (checked under SpecApi).                      *)
(***************************************************************************)
Answered == api_pc = "answered" /\ api_result # NoApiResult

SelfCheckFailed == api_result.message = "Generated text is not JSON-compatible"

\* C13: a failure of the JSON self-check is an error of its own kind: it is
\* neither the kind raised for a malformed document nor AssertionError, and
\* the endpoint does not answer it with the response of a bad upload.
C13_SelfCheckErrorDistinct ==
    (Answered /\ SelfCheckFailed) =>
        /\ api_result.kind \notin {"DocxParserError", "AssertionError"}
        /\ ~(api_response.status = 422 /\ api_response.detail[1] = "Error parsing document")

\* C19: the endpoint answers TokenLimitError with 413 and error_type
\* token_limit_exceeded, never with the 422 "Error parsing document"
\* response; a DocxParserError that is no TokenLimitError with 422; a
\* successful extraction with 200 and the text in the document field.
C19_BudgetExceededDistinct ==
    Answered =>
        /\ api_result.kind = "TokenLimitError" =>
              /\ api_response.status = 413
              /\ api_response.error_type = "token_limit_exceeded"
              /\ api_response.detail = <<api_result.message>>
        /\ api_result.kind = "DocxParserError" =>
              /\ api_response.status = 422
              /\ api_response.detail[1] = "Error parsing document"
        /\ api_result.kind = "ok" =>
              /\ api_response.status = 200
              /\ api_response.document = api_result.text
        /\ api_response.status = 200 => api_result.kind = "ok"

\* A document of 9000 tokens was answered with 413 token_limit_exceeded.
C19_Witness ==
    /\ Answered
    /\ api_result.kind = "TokenLimitError"
    /\ api_result.token_count = 9000
    /\ api_response.status = 413
    /\ api_response.error_type = "token_limit_exceeded"

(***************************************************************************)
(* Claims about the raw-text services (checked under SpecRaw).             *)
(***************************************************************************)
\* The first encoding of the list that decodes the buffer.
FirstDecoding(b) ==
    LET ok == {j \in 1..Len(encodings) : Decode(encodings[j], b).ok}
    IN  IF ok = {} THEN 0 ELSE CHOOSE j \in ok : \A k \in ok : j <= k

\* C16: raw-text decoding is total.  For every buffer both services return a
\* string; the encodings are tried in the order UTF-8, UTF-8 with byte-order
\* mark, Latin-1 and the first that decodes is used; Latin-1 decodes every
\* buffer, one character per byte, so the decoding failure never occurs.
C16_DecodingTotal ==
    /\ raw_pc = "decoding" => \A j \in 1..(raw_i - 1) : ~Decode(encodings[j], raw_bytes).ok
    /\ raw_pc \in {"decoded", "done"} =>
          /\ raw_content.ok
          /\ raw_content.encoding = encodings[FirstDecoding(raw_bytes)]
          /\ raw_content.text = Decode(raw_content.encoding, raw_bytes).text
    /\ raw_pc = "done" =>
          /\ raw_result.kind = "ok"
          /\ raw_result.text = Strip(raw_content.text)
    /\ raw_pc # "idle" =>
          /\ Decode("latin-1", raw_bytes).ok
          /\ Len(Decode("latin-1", raw_bytes).text) = Len(raw_bytes)

\* The bytes C3 61 are no UTF-8; MarkdownService returned them as two
\* Latin-1 characters.
C16_Witness ==
    /\ raw_pc = "done"
    /\ raw_service = "markdown"
    /\ raw_bytes = <<195, 97>>
    /\ raw_content.encoding = "latin-1"
    /\ raw_result = [kind |-> "ok", text |-> <<195, 97>>]

\* C17: byte-order mark stripping.  For a buffer made of the UTF-8
\* byte-order mark and valid UTF-8 text, TxtService returns a text without
\* U+FEFF (65279) that equals the trimmed decoding of the bytes after the mark.
C17_BomStripped ==
    (/\ raw_pc = "done" /\ raw_service = "txt"
     /\ Len(raw_bytes) >= 3 /\ SubSeq(raw_bytes, 1, 3) = BOM
     /\ DecodeUtf8From(raw_bytes, 4, <<>>).ok)
        => /\ raw_result.kind = "ok"
           /\ 65279 \notin Range(raw_result.text)
           /\ raw_result.text = Strip(DecodeUtf8From(raw_bytes, 4, <<>>).text)


(***************************************************************************)
(* Claims about the two sanitizers (checked under SpecText).               *)
(***************************************************************************)
TextDone == ip_pc = "done"

NoDoubleSpace(t) == \A i \in 1..(Len(t) - 1) : ~(t[i] = SP /\ t[i + 1] = SP)

IsTabOrNewline(c) == c \in {TAB, LF}

\* The tabs and newlines of a text, in order.
Layout(t) == SelectSeq(t, IsTabOrNewline)

\* C21: no double spaces.  Neither the output of sanitize_text nor the
\* output of _make_json_compatible has two consecutive ASCII spaces, also
\* when the spaces of the input were separated by a control character that
\* stage 2 removed; the tabs and newlines are those of the text after the
\* line-break normalization, in the same order.
C21_NoDoubleSpaces ==
    TextDone =>
        /\ NoDoubleSpace(ip_sanitized)
        /\ NoDoubleSpace(ip_compat)
        /\ Layout(ip_sanitized) = Layout(Replace(Replace(ip_content, <<CR, LF>>, <<LF>>), <<CR>>, <<LF>>))
        /\ Layout(ip_compat) = Layout(ip_sanitized)

\* Two spaces around a DEL and a tab: one space and the tab are left.
C21_Witness ==
    /\ TextDone
    /\ ip_content = <<SP, DEL, SP>>
    /\ ip_sanitized = <<SP>>
    /\ ip_compat = <<SP>>

CountIn(t, chars) == Cardinality({i \in DOMAIN t : t[i] \in chars})

CrLfPairs(t) == Cardinality({i \in 1..(Len(t) - 1) : t[i] = CR /\ t[i + 1] = LF})

Occurrences(t, pattern) == Cardinality({i \in DOMAIN t : MatchAt(t, i, pattern)})

\* Characters the output of _make_json_compatible must not contain.
Forbidden == ((0..31) \ {TAB, LF}) \cup {DEL, EM_DASH, EN_DASH, ELLIPSIS}

\* C22: output alphabet.  The output of _make_json_compatible has no
\* carriage return, no C0 control character except tab and newline, no DEL,
\* no em-dash, en-dash or ellipsis glyph.  Every CRLF pair and every lone CR
\* of the input is one newline of the output; every em-dash is two hyphens,
\* every en-dash one hyphen, every ellipsis three dots (the only other
\* change to the dots is the dot of each occurrence of the pattern that step
\* 4 replaces).
C22_OutputAlphabet ==
    TextDone =>
        /\ Range(ip_compat) \cap Forbidden = {}
        /\ CountIn(ip_compat, {LF}) =
               CountIn(ip_content, {LF}) + CountIn(ip_content, {CR}) - CrLfPairs(ip_content)
        /\ CountIn(ip_compat, {HYPHEN}) =
               CountIn(ip_content, {HYPHEN}) + 2 * CountIn(ip_content, {EM_DASH})
                   + CountIn(ip_content, {EN_DASH})
        /\ CountIn(ip_compat, {DOT}) + Occurrences(ip_content, QuotePattern) =
               CountIn(ip_content, {DOT}) + 3 * CountIn(ip_content, {ELLIPSIS})

\* A CRLF pair and an en-dash: one newline and one hyphen.
C22_Witness ==
    /\ TextDone
    /\ ip_content = <<CR, LF, EN_DASH>>
    /\ ip_compat = <<LF, HYPHEN>>

\* C30: relation between the two sanitizers.  On a text without an ASCII
\* double quote both return the same string; on any text the output of
\* _make_json_compatible is the output of sanitize_text with a backslash
\* written before each double quote.
C30_SanitizersAgree ==
    TextDone =>
        /\ (DQ \notin Range(ip_content) => ip_compat = ip_sanitized)
        /\ ip_compat = Replace(ip_sanitized, <<DQ>>, <<BS, DQ>>)


(***************************************************************************)
(* Claims about unresolved nodes (checked under Spec).                     *)
(***************************************************************************)
\* The cells of the top-level tables of a body: <<i, r, c>>.
CellIds(body) ==
    UNION {UNION {{<<i, r, c>> : c \in 1..Len(body[i].rows[r])} :
                      r \in 1..Len(body[i].rows)} :
              i \in {j \in 1..Len(body) : body[j].tag = "tbl"}}

CellText(body, id) == body[id[1]].rows[id[2]][id[3]]

\* How often the text s occurs in the fragments, all fragments together.
RECURSIVE TotalOccurrences(_, _)
TotalOccurrences(parts, s) ==
    IF parts = <<>> THEN 0
    ELSE Cardinality({i \in DOMAIN Head(parts) : MatchAt(Head(parts), i, s)})
             + TotalOccurrences(Tail(parts), s)

\* C24: unresolved nodes are skipped without duplication.  After the walk no
\* fragment is the text of a cell's paragraph; the trimmed text of a
\* non-blank cell occurs in the fragments exactly as many times as there are
\* cells with that text (once per cell, in its row fragment); the text of a
\* nested table occurs nowhere; and a call on a document never ends in a
\* parse or assertion error because of such a node.
C24_UnresolvedSkipped ==
    /\ pc = "walked" =>
          /\ \A id \in CellIds(doc.body) :
                LET t == CellText(doc.body, id) IN
                Strip(t) # <<>> =>
                   /\ t \notin Range(text_parts)
                   /\ TotalOccurrences(text_parts, Strip(t)) =
                         Cardinality({other \in CellIds(doc.body) :
                                         Strip(CellText(doc.body, other)) = Strip(t)})
          /\ TotalOccurrences(text_parts, NestedText) = 0
    /\ (method = "extract_text" /\ pc = "done" /\ file_content.kind = "docx") =>
          outcome.kind \in {"ok", "TokenLimitError"}

\* The walk of a table with a nested table in its first cell, followed by a
\* paragraph, gave the row fragment "d | " and "a".
C24_Witness ==
    /\ pc = "walked"
    /\ doc.body = <<NestedTable(<<RowAt(1)>>), PlainA>>
    /\ text_parts = <<RowText(RowAt(1)), <<Letter(1)>> >>


(***************************************************************************)
(* Claims about DocxService.extract_text (checked under SpecDocx).         *)
(***************************************************************************)
AllCellsBlank(row) == \A c \in 1..Len(row) : Strip(row[c]) = <<>>

\* The rows of the tables, in the order of the table collection and of the
\* rows of each table.
AllRows(d) ==
    LET tables == DocTables(d)
    IN  Concat([k \in 1..Len(tables) |-> tables[k].rows])

\* The rows with at least one non-blank cell, in the same order.
RowsKept(d) ==
    LET SomeCell(row) == ~AllCellsBlank(row) IN SelectSeq(AllRows(d), SomeCell)

\* The non-blank paragraphs, in the order of the paragraph collection.
ParagraphsKept(d) ==
    LET NonBlank(p) == Strip(p.text) # <<>> IN SelectSeq(DocParagraphs(d), NonBlank)

\* The trimmed texts of the non-blank cells of a row.
NonBlankCells(row) ==
    LET NonBlank(cell) == Strip(cell) # <<>>
        kept == SelectSeq(row, NonBlank)
    IN  [c \in 1..Len(kept) |-> Strip(kept[c])]

\* C23: row dropping.  In DocxService.extract_text the table rows give as
\* many fragments as there are rows with at least one non-blank cell: a row
\* whose cells are all blank gives none, every other row gives exactly one,
\* made of its non-blank cells.  DocxParser.extract_text drops no row at
\* all: each table gives as many fragments as it has rows.
C23_RowDropping ==
    ds_pc = "tables" =>
        LET np == Len(ParagraphsKept(ds_doc))
            kept == RowsKept(ds_doc)
        IN  /\ Len(ds_parts) = np + Len(kept)
            /\ \A k \in 1..Len(kept) : Fields(ds_parts[np + k]) = NonBlankCells(kept[k])
            /\ \A k \in 1..Len(DocTables(ds_doc)) :
                  Len(TableParts(DocTables(ds_doc)[k])) = Len(DocTables(ds_doc)[k].rows)

\* A table whose only row is blank and a table with the row [" d", ""]: one
\* fragment, "d".
C23_Witness ==
    /\ ds_pc = "tables"
    /\ ds_doc.body = <<Table(<<ServiceRows[2]>>), Table(<<ServiceRows[1]>>)>>
    /\ ds_doc.tables = <<1, 2>>
    /\ ds_parts = << <<Letter(4)>> >>

\* The position of block i after all tables are moved behind the
\* paragraphs.
MovedTo(body, i) ==
    IF body[i].tag = "p"
    THEN Cardinality({j \in 1..i : body[j].tag = "p"})
    ELSE Cardinality({j \in 1..Len(body) : body[j].tag = "p"})
             + Cardinality({j \in 1..i : body[j].tag = "tbl"})

\* The document with the same two collections whose body has the paragraphs
\* first and the tables after them.
TablesLast(d) ==
    [body |-> [j \in 1..Len(d.body) |->
                  d.body[CHOOSE i \in 1..Len(d.body) : MovedTo(d.body, i) = j]],
     paragraphs |-> [k \in 1..Len(d.paragraphs) |-> MovedTo(d.body, d.paragraphs[k])],
     tables |-> [k \in 1..Len(d.tables) |-> MovedTo(d.body, d.tables[k])]]

\* C25: DocxService ordering.  The fragments are the texts of the non-blank
\* paragraphs in the order of the paragraph collection, then the fragments
\* of the table rows in the order of the table collection and of the rows;
\* the result is the fragments joined by one newline; and it is the result
\* for the document whose tables stand behind all paragraphs.
C25_ServiceOrdering ==
    (ds_pc = "done" /\ ds_result.kind = "ok") =>
        LET ps == ParagraphsKept(ds_doc)
            rows == RowsKept(ds_doc)
        IN  /\ Len(ds_parts) = Len(ps) + Len(rows)
            /\ \A k \in 1..Len(ps) : ds_parts[k] = ps[k].text
            /\ \A k \in 1..Len(rows) :
                  ds_parts[Len(ps) + k] = Join(<<SP, PIPE, SP>>, NonBlankCells(rows[k]))
            /\ ds_result.text = Join(<<LF>>, ds_parts)
            /\ ds_result = DocxService_extract_text([kind |-> "docx", doc |-> TablesLast(ds_doc)])

\* A table with the row ["e", "f "] standing before the paragraph "a":
\* the result is "a", newline, "e | f".
C25_Witness ==
    /\ ds_pc = "done"
    /\ ds_doc.body = <<Table(<<ServiceRows[3]>>), Paragraph(<<Letter(1)>>, FALSE, <<>>)>>
    /\ ds_result.text = <<Letter(1), LF, Letter(5), SP, PIPE, SP, Letter(6)>>


(***************************************************************************)
(* Claims about the customer-intent endpoint (checked under SpecIntent).   *)
(***************************************************************************)
\* The positions of a request in the order of the five steps.
StepOrder ==
    <<"received", "extracted", "processed", "validated", "generated", "answered">>

IsNextStep(from, to) ==
    \E k \in 1..(Len(StepOrder) - 1) : from = StepOrder[k] /\ to = StepOrder[k + 1]

\* One step of a request: the next step in order, or a failure, after which
\* only the error response follows and nothing but the response changes.
OrderedStep ==
    /\ \/ IsNextStep(ci_pc, ci_pc')
       \/ ci_pc \notin {"raised", "answered"} /\ ci_pc' = "raised"
       \/ ci_pc = "raised" /\ ci_pc' = "answered"
       \/ UNCHANGED ci_vars
    /\ ci_ai_calls' # ci_ai_calls => ci_pc = "validated"
    /\ ci_pc = "raised" =>
          UNCHANGED <<ci_document_text, ci_processed_text, ci_token_info,
                      ci_intent_result, ci_ai_calls, ci_raised>>
    /\ ci_pc = "answered" => UNCHANGED ci_vars

\* What holds of a request at every moment.
NoEarlyCall ==
    /\ ci_ai_calls \in {0, 1}
    /\ ci_ai_calls > 0 =>
          /\ splitext(ci_file.filename) \in DOMAIN FILE_EXTENSIONS_DICT
          /\ ci_document_text # <<>>
          /\ ci_processed_text # <<>>
          /\ ci_token_info # NoTokenInfo
    /\ ci_pc = "answered" =>
          /\ ci_response.status # 0
          /\ ci_response.status = 200 <=> ci_raised = NoException
    /\ ci_pc # "answered" => ci_response = NoIntentResponse

\* C26: pipeline ordering.  The request passes the five steps in the order
\* extraction, text processing, token validation, AI completion, response
\* formatting; after a failure no later step runs; the AI service is called
\* at most once and only for a supported extension, a non-empty extracted
\* text, a non-empty processed text and an obtained token_info; a request
\* that has ended has one response, a success exactly when nothing was
\* raised, and the response does not change afterwards.
C26_PipelineOrder == [][OrderedStep]_vars /\ []NoEarlyCall

\* A text file went through all five steps: one AI call, status 200.
C26_Witness ==
    /\ ci_pc = "answered"
    /\ ci_file.filename = "a.txt"
    /\ ci_ai_calls = 1
    /\ ci_response.status = 200

\* C27: the token limit is enforced before the AI call.  The AI service is
\* called only for a processed text whose token count is at most the model
\* limit of token_info.
C27_TokenLimitEnforced ==
    ci_ai_calls > 0 => ci_token_info.token_count <= ci_token_info.model_limit

RunAlone(i) == extract_text(cc_content[i], FALSE, cc_env, cc_enc[i])

CallFrame(i) == <<cc_content[i], cc_doc[i], cc_text_parts[i], cc_text[i], cc_enc[i],
                  cc_outcome[i]>>

\* A step of one call leaves the frame of the other call and whatever a call
\* reads of the process as they were.
OwnFrameOnly ==
    /\ \A i \in Calls : cc_pc'[i] = cc_pc[i] => CallFrame(i)' = CallFrame(i)
    /\ \E i \in Calls : cc_pc'[i] = cc_pc[i]
    /\ cc_env' = cc_env

ResultAsAlone == \A i \in Calls : cc_pc[i] = "done" => cc_outcome[i] = RunAlone(i)

\* C29: two extract_text calls on different buffers do not interfere.  In
\* every interleaving of their steps a step changes only the locals of the
\* call that takes it, nothing a call reads of the process is written, and
\* the result of each finished call is the result the call gives when it
\* runs alone.
C29_NoInterference == [][OwnFrameOnly]_vars /\ []ResultAsAlone

\* The second call has returned its text, after a warning, while the first
\* call is between its sanitizing and its token step with another text.
C29_Witness ==
    /\ cc_pc[1] = "sanitized" /\ cc_text[1] # <<>>
    /\ cc_pc[2] = "done" /\ cc_outcome[2].kind = "ok"
    /\ cc_outcome[2].text # <<>> /\ cc_outcome[2].text # cc_text[1]
    /\ cc_stdout = <<2>>
====
